---- MODULE Spec2Model ----
(***************************************************************************)
(* French marble solitaire (broy411/marbleSolitaire): the bitboard, the    *)
(* move table, the visited set, the two DFS solvers (msSolver::solve and   *)
(* the facade's file-local solvable) and the msGame facade.                *)
(*                                                                         *)
(* A Board (uint64_t) is modelled as the set of indices of its one-bits,   *)
(* a subset of 0..63: & is intersection, | is union, ~ is the complement   *)
(* in 0..63, shifts move the indices and the unsigned order is decided by  *)
(* the highest differing bit.  A Row / Column (uint8_t) is the set of      *)
(* indices of its one-bits, a subset of 0..7.                              *)
(***************************************************************************)
EXTENDS Integers, Sequences, FiniteSets, TLC

(***************************************************************************)
(* Bounds of the model                                                     *)
(***************************************************************************)
\* solver inputs: boards holding 1..MaxMarbles marbles on playable cells
MaxMarbles == 3
\* facade play: at most MaxHistory moves are on the history at once
MaxHistory == 2
\* coordinates handed to the facade range over -CoordSlack .. 6+CoordSlack
CoordSlack == 1
\* msBoard::isValidMove is tried on boards at most MaxValidDepth moves into a game
MaxValidDepth == 2
\* msBoard functions are called on boards holding 1..MaxBoardMarbles marbles
MaxBoardMarbles == 2
\* a session of the game loop reads at most MaxOtherLines lines that are
\* hints, solution requests or undos, an undo that is carried out counting twice
MaxOtherLines == 3
\* the search from a start board is followed until MaxSeen positions are visited
MaxSeen == 90
\* hash sets that solvable may leave allocated before no further call of
\* getBestMove / getSolution is followed
MaxLiveSets == 1
\* getBestMove and getSolution are followed on boards of at most
\* MaxGameMarbles marbles
MaxGameMarbles == 5

(***************************************************************************)
(* Constants of msBoard.cpp / msBoard.h                                    *)
(***************************************************************************)
NUM_ROTATIONS == 8
NUM_ROWS == 7
NUM_COLS == 7
MAX_ROW == NUM_ROWS - 1
MAX_COL == NUM_COLS - 1
MAX_BOARD_IDX == 63
WINNING_MARBLE_COUNT == 1

DEGREE_0 == 0
DEGREE_90 == 1
DEGREE_180 == 2
DEGREE_270 == 3
FLIP_H == 4
FLIP_V == 5
FLIP_DIAG == 6
FLIP_ANTI == 7

Transforms == DEGREE_0 .. FLIP_ANTI

PLAYABLE ==
  << << FALSE, FALSE, TRUE,  TRUE,  TRUE,  FALSE, FALSE >>,
     << FALSE, TRUE,  TRUE,  TRUE,  TRUE,  TRUE,  FALSE >>,
     << TRUE,  TRUE,  TRUE,  TRUE,  TRUE,  TRUE,  TRUE  >>,
     << TRUE,  TRUE,  TRUE,  TRUE,  TRUE,  TRUE,  TRUE  >>,
     << TRUE,  TRUE,  TRUE,  TRUE,  TRUE,  TRUE,  TRUE  >>,
     << FALSE, TRUE,  TRUE,  TRUE,  TRUE,  TRUE,  FALSE >>,
     << FALSE, FALSE, TRUE,  TRUE,  TRUE,  FALSE, FALSE >> >>

COL_START_IDX == << 2, 1, 0, 0, 0, 1, 2 >>
COL_END_IDX == << 4, 5, 6, 6, 6, 5, 4 >>

\* PLAYABLE[r][c] for indices inside the table
Playable(r, c) == PLAYABLE[r + 1][c + 1]

InBoard(r, c) == r \in 0 .. MAX_ROW /\ c \in 0 .. MAX_COL

ROW_IDX(r) == MAX_BOARD_IDX - (r * NUM_COLS)

rowShift(r) == ROW_IDX(r) - (NUM_COLS - 1)

bitIndex(r, c) == ROW_IDX(r) - c

(***************************************************************************)
(* 64-bit words as sets of bit indices                                     *)
(***************************************************************************)
WordBits == 0 .. MAX_BOARD_IDX

EMPTY_BOARD == {}

Bit(i) == IF i \in WordBits THEN {i} ELSE {}

BitAnd(a, b) == a \cap b

BitOr(a, b) == a \cup b

BitNot(a) == WordBits \ a

ShiftR(a, n) == { i - n : i \in { j \in a : j >= n } }

ShiftL(a, n) == { i + n : i \in { j \in a : j + n <= MAX_BOARD_IDX } }

\* the mask with bits lo..hi set (0x7, 0x1F, 0x7F, 0x1FFFFF are LowMask(n))
LowMask(n) == 0 .. (n - 1)

MaxOf(S) == CHOOSE x \in S : \A y \in S : y <= x

\* a < b as unsigned 64-bit words: the highest bit in which they differ is b's
WordLt(a, b) == a # b /\ MaxOf((a \ b) \cup (b \ a)) \in b

popcount(a) == Cardinality(a)

\* the cells of the 7x7 grid whose PLAYABLE entry is true, as a bit mask
PlayableMask ==
  { bitIndex(x[1], x[2]) :
      x \in { y \in (0 .. MAX_ROW) \X (0 .. MAX_COL) : Playable(y[1], y[2]) } }

\* FULL_BOARD = 0x38FBFFFFEF8E0000 and DEFAULT_BOARD = 0x18FBFFFFEF8E0000,
\* written out as their one-bits
FULL_BOARD ==
  (59 .. 61) \cup (51 .. 55) \cup (43 .. 49) \cup (36 .. 42) \cup
  (29 .. 35) \cup (23 .. 27) \cup (17 .. 19)

DEFAULT_BOARD == FULL_BOARD \ {61}

(***************************************************************************)
(* Rows, columns and the eight transforms (msBoard.cpp, anonymous ns)      *)
(***************************************************************************)
\* a bit reversal over eight bits instead of seven
reverse8(x) == { 7 - k : k \in (x \cap LowMask(7)) }

reverse7(x) == { 6 - k : k \in (x \cap LowMask(7)) }

\* REVERSED is the 128-entry table of reverse7; an index has bit 7 clear
REVERSED(x) == reverse7(x)

getRow(b, r) == BitAnd(ShiftR(b, rowShift(r)), LowMask(7))

insertRow(b, r, rowBits) ==
  BitOr(BitAnd(b, BitNot(ShiftL(LowMask(7), rowShift(r)))),
        ShiftL(rowBits, rowShift(r)))

getCol(b, c) ==
  UNION { ShiftL(BitAnd(ShiftR(b, ROW_IDX(i) - c), LowMask(1)), MAX_ROW - i) :
            i \in 0 .. MAX_ROW }

transformBoard(b, t) ==
  LET step(out, i) ==
        CASE t = DEGREE_90  -> insertRow(out, MAX_ROW - i, getCol(b, i))
          [] t = DEGREE_180 -> insertRow(out, MAX_ROW - i, REVERSED(getRow(b, i)))
          [] t = DEGREE_270 -> insertRow(out, i, REVERSED(getCol(b, i)))
          [] t = FLIP_H     -> insertRow(out, i, REVERSED(getRow(b, i)))
          [] t = FLIP_V     -> insertRow(out, MAX_ROW - i, getRow(b, i))
          [] t = FLIP_DIAG  -> insertRow(out, i, getCol(b, i))
          [] t = FLIP_ANTI  -> insertRow(out, MAX_ROW - i, REVERSED(getCol(b, i)))
      RECURSIVE loop(_, _)
      loop(out, i) == IF i >= NUM_ROWS THEN out ELSE loop(step(out, i), i + 1)
  IN  IF t = DEGREE_0 THEN b ELSE loop(EMPTY_BOARD, 0)

\* every transform taken to be its own inverse
inverseTransformSelf(t) == t

inverseTransform(t) ==
  CASE t = DEGREE_0   -> DEGREE_0
    [] t = DEGREE_90  -> DEGREE_270
    [] t = DEGREE_180 -> DEGREE_180
    [] t = DEGREE_270 -> DEGREE_90
    [] t = FLIP_H     -> FLIP_H
    [] t = FLIP_V     -> FLIP_V
    [] t = FLIP_DIAG  -> FLIP_DIAG
    [] t = FLIP_ANTI  -> FLIP_ANTI

(***************************************************************************)
(* Moves and the move table (msBoard.h struct Move, setupAllMoves)         *)
(***************************************************************************)
Move(s, c) == [setBit |-> s, clearBits |-> c]

\* a table that asks only the cell jumped over to be playable, not the
\* landing cell
MovesAtAnyLanding(r, c) ==
  LET src == bitIndex(r, c)
      up == IF r >= 2 /\ Playable(r - 1, c)
            THEN << Move(Bit(bitIndex(r - 2, c)),
                         BitOr(Bit(src), Bit(bitIndex(r - 1, c)))) >>
            ELSE << >>
      down == IF r <= 4 /\ Playable(r + 1, c)
              THEN << Move(Bit(bitIndex(r + 2, c)),
                           BitOr(Bit(src), Bit(bitIndex(r + 1, c)))) >>
              ELSE << >>
      left == IF c >= 2 /\ Playable(r, c - 1)
              THEN << Move(Bit(bitIndex(r, c - 2)),
                           BitOr(Bit(src), Bit(bitIndex(r, c - 1)))) >>
              ELSE << >>
      right == IF c <= 4 /\ Playable(r, c + 1)
               THEN << Move(Bit(bitIndex(r, c + 2)),
                            BitOr(Bit(src), Bit(bitIndex(r, c + 1)))) >>
               ELSE << >>
  IN  IF ~Playable(r, c) THEN << >> ELSE up \o down \o left \o right

\* the moves pushed for source cell (r, c): up, down, left, right
MovesAt(r, c) ==
  LET src == bitIndex(r, c)
      up == IF r >= 2 /\ Playable(r - 1, c) /\ Playable(r - 2, c)
            THEN << Move(Bit(bitIndex(r - 2, c)),
                         BitOr(Bit(src), Bit(bitIndex(r - 1, c)))) >>
            ELSE << >>
      down == IF r <= 4 /\ Playable(r + 1, c) /\ Playable(r + 2, c)
              THEN << Move(Bit(bitIndex(r + 2, c)),
                           BitOr(Bit(src), Bit(bitIndex(r + 1, c)))) >>
              ELSE << >>
      left == IF c >= 2 /\ Playable(r, c - 1) /\ Playable(r, c - 2)
              THEN << Move(Bit(bitIndex(r, c - 2)),
                           BitOr(Bit(src), Bit(bitIndex(r, c - 1)))) >>
              ELSE << >>
      right == IF c <= 4 /\ Playable(r, c + 1) /\ Playable(r, c + 2)
               THEN << Move(Bit(bitIndex(r, c + 2)),
                            BitOr(Bit(src), Bit(bitIndex(r, c + 1)))) >>
               ELSE << >>
  IN  IF ~Playable(r, c) THEN << >> ELSE up \o down \o left \o right

setupAllMoves ==
  LET RECURSIVE cols(_, _)
      cols(r, c) == IF c > COL_END_IDX[r + 1] THEN << >>
                    ELSE MovesAt(r, c) \o cols(r, c + 1)
      RECURSIVE rows(_)
      rows(r) == IF r >= NUM_ROWS THEN << >>
                 ELSE cols(r, COL_START_IDX[r + 1]) \o rows(r + 1)
  IN  rows(0)

ALL_MOVES == setupAllMoves

(***************************************************************************)
(* msBoard member functions                                                *)
(***************************************************************************)
\* unsigned x > k, x carried by its int image: a negative int is a huge unsigned
UnsignedGt(x, k) == x < 0 \/ x > k

\* a constructor that tests playability inside the grid only and takes the
\* bit of whatever index the coordinates give
msBoardAtNoRange(row, col) ==
  IF InBoard(row, col) /\ ~Playable(row, col)
  THEN DEFAULT_BOARD
  ELSE BitAnd(FULL_BOARD, BitNot(Bit(bitIndex(row, col))))

\* a constructor that leaves the marble on the chosen cell
msBoardAtFull(row, col) ==
  IF UnsignedGt(row, MAX_ROW) \/ UnsignedGt(col, MAX_COL) \/ ~Playable(row, col)
  THEN DEFAULT_BOARD
  ELSE FULL_BOARD

\* a constructor that flips the cell's bit without asking whether the cell
\* is playable
msBoardAtToggles(row, col) ==
  IF UnsignedGt(row, MAX_ROW) \/ UnsignedGt(col, MAX_COL)
  THEN DEFAULT_BOARD
  ELSE (FULL_BOARD \ Bit(bitIndex(row, col)))
         \cup (Bit(bitIndex(row, col)) \ FULL_BOARD)

\* msBoard::msBoard(unsigned row, unsigned col)
msBoardAt(row, col) ==
  IF UnsignedGt(row, MAX_ROW) \/ UnsignedGt(col, MAX_COL) \/ ~Playable(row, col)
  THEN DEFAULT_BOARD
  ELSE BitAnd(FULL_BOARD, BitNot(Bit(bitIndex(row, col))))

hasWon(b) == popcount(b) = WINNING_MARBLE_COUNT

\* a test that is content with a marble on either cell to be cleared
MoveValidOnAnyMarble(b, m) == BitAnd(b, m.clearBits) # {}

\* a test that asks for the two marbles and not for an empty landing cell
MoveValidOnAnyLanding(b, m) == BitAnd(b, m.clearBits) = m.clearBits

\* the test of validMoves' loop body for one table entry
MoveValidOn(b, m) ==
  /\ BitAnd(b, m.clearBits) = m.clearBits
  /\ BitAnd(BitNot(b), m.setBit) = m.setBit

\* a validMoves that clears the list it is given before it appends
validMovesCleared(b, moves) ==
  SelectSeq(ALL_MOVES, LAMBDA m : MoveValidOn(b, m))

\* validMoves(moves): appends to moves, in table order
validMoves(b, moves) ==
  moves \o SelectSeq(ALL_MOVES, LAMBDA m : MoveValidOn(b, m))

\* a move that lifts both marbles and lands none
applyMoveNoLanding(b, m) == BitAnd(b, BitNot(m.clearBits))

applyMove(b, m) == BitAnd(BitOr(b, m.setBit), BitNot(m.clearBits))

\* an undo that plays the move once more instead of taking it back
undoMoveReapplies(b, m) == BitOr(BitAnd(b, BitNot(m.clearBits)), m.setBit)

\* an undo that removes the landed marble and restores nothing
undoMoveForgetful(b, m) == BitAnd(b, BitNot(m.setBit))

undoMove(b, m) == BitOr(BitAnd(b, BitNot(m.setBit)), m.clearBits)

\* a packing whose top row is shifted one place short, onto the row below
boardToBitsOverlap(b) ==
  LET b1 == ShiftR(b, 17)
      r1 == BitAnd(b1, LowMask(3))
      b2 == ShiftR(b1, 6)
      r2 == BitOr(r1, ShiftL(BitAnd(b2, LowMask(5)), 3))
      b3 == ShiftR(b2, 6)
      r3 == BitOr(r2, ShiftL(BitAnd(b3, LowMask(21)), 8))
      b4 == ShiftR(b3, 22)
      r4 == BitOr(r3, ShiftL(BitAnd(b4, LowMask(5)), 29))
      b5 == ShiftR(b4, 8)
  IN  BitOr(r4, ShiftL(BitAnd(b5, LowMask(3)), 33))

boardToBits(b) ==
  LET b1 == ShiftR(b, 17)
      r1 == BitAnd(b1, LowMask(3))
      b2 == ShiftR(b1, 6)
      r2 == BitOr(r1, ShiftL(BitAnd(b2, LowMask(5)), 3))
      b3 == ShiftR(b2, 6)
      r3 == BitOr(r2, ShiftL(BitAnd(b3, LowMask(21)), 8))
      b4 == ShiftR(b3, 22)
      r4 == BitOr(r3, ShiftL(BitAnd(b4, LowMask(5)), 29))
      b5 == ShiftR(b4, 8)
  IN  BitOr(r4, ShiftL(BitAnd(b5, LowMask(3)), 34))

\* the eight images as getCanonicalBits builds them, indexed by transform + 1
CanonicalImages(b) ==
  LET row(i) == getRow(b, i)
      col(i) == getCol(b, i)
      img(t) ==
        UNION { CASE t = DEGREE_90  -> ShiftL(REVERSED(col(i)), rowShift(i))
                  [] t = DEGREE_180 -> ShiftL(REVERSED(row(i)), rowShift(MAX_ROW - i))
                  [] t = DEGREE_270 -> ShiftL(col(i), rowShift(MAX_ROW - i))
                  [] t = FLIP_H     -> ShiftL(REVERSED(row(i)), rowShift(i))
                  [] t = FLIP_V     -> ShiftL(row(i), rowShift(MAX_ROW - i))
                  [] t = FLIP_DIAG  -> ShiftL(col(i), rowShift(i))
                  [] t = FLIP_ANTI  -> ShiftL(REVERSED(col(i)), rowShift(MAX_ROW - i))
                : i \in 0 .. MAX_ROW }
  IN  [ k \in 1 .. NUM_ROTATIONS |-> IF k - 1 = DEGREE_0 THEN b ELSE img(k - 1) ]

\* a scan that also moves on to an image equal to the best so far
getCanonicalBitsLastTie(b) ==
  LET boards == CanonicalImages(b)
      RECURSIVE scan(_, _, _)
      scan(i, best, bestTransform) ==
        IF i >= NUM_ROTATIONS THEN [board |-> best, transform |-> bestTransform]
        ELSE IF ~WordLt(best, boards[i + 1])
             THEN scan(i + 1, boards[i + 1], i)
             ELSE scan(i + 1, best, bestTransform)
  IN  scan(0, b, DEGREE_0)

\* a canonical form chosen among the four rotations only
getCanonicalBitsRotationsOnly(b) ==
  LET boards == CanonicalImages(b)
      RECURSIVE scan(_, _, _)
      scan(i, best, bestTransform) ==
        IF i > DEGREE_270 THEN [board |-> best, transform |-> bestTransform]
        ELSE IF WordLt(boards[i + 1], best)
             THEN scan(i + 1, boards[i + 1], i)
             ELSE scan(i + 1, best, bestTransform)
  IN  scan(0, b, DEGREE_0)

\* getCanonicalBits(): the pair (best, bestTransform)
getCanonicalBits(b) ==
  LET RECURSIVE scan(_, _, _, _)
      scan(boards, i, best, bestTransform) ==
        IF i >= NUM_ROTATIONS THEN [board |-> best, transform |-> bestTransform]
        ELSE IF WordLt(boards[i + 1], best)
             THEN scan(boards, i + 1, boards[i + 1], i)
             ELSE scan(boards, i + 1, best, bestTransform)
  IN  \* the eight images are computed once, before the scan
      CHOOSE c \in { scan(boards, 0, b, DEGREE_0) :
                       boards \in { CanonicalImages(b) } } : TRUE

\* undoTransform(m, t): the move after the call
undoTransform(m, t) ==
  IF t = DEGREE_0 THEN m
  ELSE Move(transformBoard(m.setBit, inverseTransform(t)),
            transformBoard(m.clearBits, inverseTransform(t)))

\* getBit(b, r, c) once its two assertions (r < NUM_ROWS, c < NUM_COLS) passed
getBit(b, r, c) == BitAnd(ShiftR(b, bitIndex(r, c)), LowMask(1)) # {}

\* a validity test that never looks at the cell jumped over
isValidMoveNoMid(b, row, col, toRow, toCol, g) ==
  LET rowDif == IF row >= toRow THEN row - toRow ELSE toRow - row
      colDif == IF col >= toCol THEN col - toCol ELSE toCol - col
  IN  IF ~InBoard(toRow, toCol) \/ ~InBoard(row, col)
      THEN [ret |-> FALSE, fault |-> "none"]
      ELSE [ret |-> /\ Playable(row, col) /\ Playable(toRow, toCol)
                    /\ \/ (rowDif = 2 /\ colDif = 0)
                       \/ (rowDif = 0 /\ colDif = 2)
                    /\ getBit(b, row, col) /\ ~getBit(b, toRow, toCol),
            fault |-> "none"]

(***************************************************************************)
(* msBoard::isValidMove(int row, int col, int toRow, int toCol).           *)
(* Only the destination is range-checked before PLAYABLE[row][col] is      *)
(* read.  For a source outside the table that read is outside the array:   *)
(* its value is the parameter g (whatever the bytes there hold), fault     *)
(* records it as "oob_read".  When the read lets the call go on, getBit's  *)
(* assert(r < NUM_ROWS) / assert(c < NUM_COLS) fails (the int is converted *)
(* to a huge unsigned when negative): fault "assert", the process aborts.  *)
(***************************************************************************)
isValidMove(b, row, col, toRow, toCol, g) ==
  LET rowDif == IF row >= toRow THEN row - toRow ELSE toRow - row
      colDif == IF col >= toCol THEN col - toCol ELSE toCol - col
      srcIn == InBoard(row, col)
      srcPlayable == IF srcIn THEN Playable(row, col) ELSE g
      readFault == IF srcIn THEN "none" ELSE "oob_read"
      midRow == (row + toRow) \div 2
      midCol == (col + toCol) \div 2
  IN  IF toRow > MAX_ROW \/ toRow < 0 \/ toCol > MAX_COL \/ toCol < 0
      THEN [ret |-> FALSE, fault |-> "none"]
      ELSE IF ~srcPlayable \/ ~Playable(toRow, toCol)
      THEN [ret |-> FALSE, fault |-> readFault]
      ELSE IF ~((rowDif = 2 /\ colDif = 0) \/ (rowDif = 0 /\ colDif = 2))
      THEN [ret |-> FALSE, fault |-> readFault]
      ELSE IF ~srcIn
      THEN [ret |-> FALSE, fault |-> "assert"]
      ELSE IF ~getBit(b, row, col) \/ getBit(b, toRow, toCol)
      THEN [ret |-> FALSE, fault |-> "none"]
      ELSE [ret |-> getBit(b, midRow, midCol), fault |-> "none"]

\* msBoard::getAMove: throws std::runtime_error unless isValidMove accepts
getAMove(b, row, col, toRow, toCol, g) ==
  LET v == isValidMove(b, row, col, toRow, toCol, g)
      midRow == (row + toRow) \div 2
      midCol == (col + toCol) \div 2
  IN  IF ~v.ret
      THEN [threw |-> TRUE, fault |-> v.fault, move |-> Move({}, {})]
      ELSE [threw |-> FALSE, fault |-> v.fault,
            move |-> Move(Bit(bitIndex(toRow, toCol)),
                          BitOr(Bit(bitIndex(row, col)),
                                Bit(bitIndex(midRow, midCol))))]

(***************************************************************************)
(* Move::toString: "<originRow> <originCol> <dir>", carried as the triple  *)
(* of its three fields.  Both scans run over the playable cells in row-    *)
(* major order and keep the last match.                                    *)
(***************************************************************************)
ScanCells == { <<r, c>> \in (0 .. MAX_ROW) \X (0 .. MAX_COL) :
                 c >= COL_START_IDX[r + 1] /\ c <= COL_END_IDX[r + 1] }

LastInScan(S) == CHOOSE x \in S :
                   \A y \in S : y[1] * NUM_COLS + y[2] <= x[1] * NUM_COLS + x[2]

Abs(x) == IF x < 0 THEN 0 - x ELSE x

\* a printer that takes the last cleared cell of the scan for the origin,
\* without telling the origin from the cell jumped over
toStringLastCleared(m) ==
  LET destHits == { x \in ScanCells : bitIndex(x[1], x[2]) \in m.setBit }
      dest == IF destHits = {} THEN <<0 - 1, 0 - 1>> ELSE LastInScan(destHits)
      destRow == dest[1]
      destCol == dest[2]
      originHits == { x \in ScanCells : bitIndex(x[1], x[2]) \in m.clearBits }
      origin == IF originHits = {} THEN <<0 - 1, 0 - 1>>
                ELSE LastInScan(originHits)
      originRow == origin[1]
      originCol == origin[2]
      dir == IF originRow = destRow /\ originCol + 2 = destCol THEN "right"
             ELSE IF originRow = destRow /\ originCol - 2 = destCol THEN "left"
             ELSE IF originCol = destCol /\ originRow + 2 = destRow THEN "down"
             ELSE IF originCol = destCol /\ originRow - 2 = destRow THEN "up"
             ELSE "unknown"
  IN  << originRow, originCol, dir >>

toString(m) ==
  LET destHits == { x \in ScanCells : bitIndex(x[1], x[2]) \in m.setBit }
      dest == IF destHits = {} THEN <<0 - 1, 0 - 1>> ELSE LastInScan(destHits)
      destRow == dest[1]
      destCol == dest[2]
      originHits ==
        { x \in ScanCells :
            /\ bitIndex(x[1], x[2]) \in m.clearBits
            /\ \/ (Abs(x[1] - destRow) = 2 /\ x[2] = destCol)
               \/ (Abs(x[2] - destCol) = 2 /\ x[1] = destRow) }
      origin == IF originHits = {} THEN <<0 - 1, 0 - 1>>
                ELSE LastInScan(originHits)
      originRow == origin[1]
      originCol == origin[2]
      dir == IF originRow = destRow /\ originCol + 2 = destCol THEN "right"
             ELSE IF originRow = destRow /\ originCol - 2 = destCol THEN "left"
             ELSE IF originCol = destCol /\ originRow + 2 = destRow THEN "down"
             ELSE IF originCol = destCol /\ originRow - 2 = destRow THEN "up"
             ELSE "unknown"
  IN  << originRow, originCol, dir >>

(***************************************************************************)
(* msGame (msGame.cpp)                                                     *)
(***************************************************************************)
UP == 0
DOWN == 1
LEFT == 2
RIGHT == 3

Directions == UP .. RIGHT

\* row and col are unsigned in msGame; they are carried by their int images,
\* on which +2 and -2 agree with the arithmetic modulo 2^32 that the mixed
\* int / unsigned conditional performs
destRowOf(row, dir) ==
  IF dir = UP THEN row - 2 ELSE IF dir = DOWN THEN row + 2 ELSE row

destColOf(col, dir) ==
  IF dir = LEFT THEN col - 2 ELSE IF dir = RIGHT THEN col + 2 ELSE col

\* msGame::isValidMove(row, col, dir) on board b
gameIsValidMove(b, row, col, dir, g) ==
  isValidMove(b, row, col, destRowOf(row, dir), destColOf(col, dir), g)

\* msGame::makeMove(row, col, dir): the return value, the fault and the
\* board and history it leaves
gameMakeMove(b, hist, row, col, dir, g) ==
  LET v == gameIsValidMove(b, row, col, dir, g)
      got == getAMove(b, row, col, destRowOf(row, dir), destColOf(col, dir), g)
  IN  IF ~v.ret
      THEN [ret |-> FALSE, fault |-> v.fault, board |-> b, moveHistory |-> hist]
      ELSE IF got.threw
      THEN [ret |-> FALSE, fault |-> got.fault, board |-> b, moveHistory |-> hist]
      ELSE [ret |-> TRUE, fault |-> got.fault,
            board |-> applyMove(b, got.move),
            moveHistory |-> Append(hist, got.move)]

\* an undo that inverts the last move and leaves it on the history
gameUndoMoveKeeps(b, hist) ==
  IF hist = << >>
  THEN [ret |-> FALSE, board |-> b, moveHistory |-> hist]
  ELSE [ret |-> TRUE,
        board |-> BitOr(BitAnd(b, BitNot(hist[Len(hist)].setBit)),
                        hist[Len(hist)].clearBits),
        moveHistory |-> hist]

\* msGame::undoMove()
gameUndoMove(b, hist) ==
  IF hist = << >>
  THEN [ret |-> FALSE, board |-> b, moveHistory |-> hist]
  ELSE [ret |-> TRUE,
        board |-> undoMove(b, hist[Len(hist)]),
        moveHistory |-> SubSeq(hist, 1, Len(hist) - 1)]

\* msGame::hasMoves()
gameHasMoves(b) == validMoves(b, << >>) # << >>

(***************************************************************************)
(* The visited set (msBitmap.h with HAVE_16GB_RAM 0: a hash set of keys)   *)
(***************************************************************************)
\* the number a set of bit indices stands for (used below 2^6)
RECURSIVE NumOf(_)
NumOf(x) == IF x = {} THEN 0 ELSE 2 ^ MaxOf(x) + NumOf(x \ { MaxOf(x) })

\* BIT_COUNT = 1ULL << 37, by its shift count
BIT_COUNT_SHIFT == 37

\* a dense set that tests the bit and never sets it
testAndSetDenseNoStore(bm, value) ==
  LET idx == boardToBits(value)
      cell == << ShiftR(idx, 6), NumOf(BitAnd(idx, LowMask(6))) >>
  IN  [hit |-> cell \in bm,
       bitmap |-> bm,
       fault |-> IF idx \subseteq LowMask(BIT_COUNT_SHIFT) THEN "none" ELSE "assert"]

\* msBitmap::testAndSet(value) with HAVE_16GB_RAM 1: word idx >> 6, bit
\* idx & 63 of the array; assert(idx < sizeBits) with sizeBits = 1 << 37
testAndSetDense(bm, value) ==
  LET idx == boardToBits(value)
      cell == << ShiftR(idx, 6), NumOf(BitAnd(idx, LowMask(6))) >>
  IN  [hit |-> cell \in bm,
       bitmap |-> bm \cup { cell },
       fault |-> IF idx \subseteq LowMask(BIT_COUNT_SHIFT) THEN "none" ELSE "assert"]

\* msBitmap::clear() with HAVE_16GB_RAM 1: memset of the whole array
clearDense(bm) == {}

\* a visited set that answers from its keys and never stores the new one
testAndSetForgets(s, value) ==
  [hit |-> boardToBits(value) \in s, set |-> s]

\* a visited set in which every key collides once one key is in it
testAndSetColliding(s, value) ==
  [hit |-> s # {}, set |-> s \cup {boardToBits(value)}]

\* msBitmap::testAndSet(value) on the set of keys s
testAndSet(s, value) ==
  [hit |-> boardToBits(value) \in s, set |-> s \cup {boardToBits(value)}]

(***************************************************************************)
(* The solvers: msSolver.cpp (solve, runDFS, getMoveOrder) and the copy in *)
(* msGame.cpp (solvable, getMoveOrder) that the facade calls.              *)
(* A stack is a sequence whose last element is the top; indices into the   *)
(* shared move buffer are the 0-based indices of the code.                 *)
(***************************************************************************)
\* main.cpp: the marble count the game loop starts from
INIT_MARBLE_CT == 36

INIT_MOVE_NUM == 1

START_MOVE_IDX == 0
FIRST_MOVE_IDX == 0

StackFrame(b, moveIndex, moveEnd, movesStart, transforms, incomingMove) ==
  [board |-> b, moveIndex |-> moveIndex, moveEnd |-> moveEnd,
   movesStart |-> movesStart, transforms |-> transforms,
   incomingMove |-> incomingMove]

\* std::nullopt is << >>, an engaged optional is << m >>
NoMove == << >>

Reverse(q) == [ i \in 1 .. Len(q) |-> q[Len(q) + 1 - i] ]

\* the inner loop of getMoveOrder: undo transforms[j] for j = size-1 down to 0
UndoAll(m, transforms) ==
  LET RECURSIVE undo(_, _)
      undo(curr, j) == IF j < 1 THEN curr
                       ELSE undo(undoTransform(curr, transforms[j]), j - 1)
  IN  undo(m, Len(transforms))

\* getMoveOrder(stack): frames[i] is the i-th frame from the top; a frame's
\* incoming move is paired with the transforms of the frame below it
getMoveOrder(stack) ==
  LET frames == Reverse(stack)
      n == Len(frames)
      RECURSIVE collect(_)
      collect(i) ==
        IF i > n THEN << >>
        ELSE IF frames[i].incomingMove # NoMove
        THEN << UndoAll(frames[i].incomingMove[1],
                        IF i + 1 <= n THEN frames[i + 1].transforms ELSE << >>) >>
             \o collect(i + 1)
        ELSE collect(i + 1)
  IN  Reverse(collect(1))

\* the root frame and move buffer that solve / solvable set up
RootSetup(startBoard) ==
  LET c == getCanonicalBits(startBoard)
      buf == validMoves(c.board, << >>)
  IN  [moves |-> buf,
       dfs |-> << StackFrame(c.board, START_MOVE_IDX, Len(buf), FIRST_MOVE_IDX,
                             IF c.transform # DEGREE_0 THEN << c.transform >>
                             ELSE << >>,
                             NoMove) >>]

\* a step that takes the new frame's range to begin where the top frame's
\* range ends, as if the buffer had been cut back on every pop
ExpandAtTopEnd(top, buf) ==
  LET m == buf[top.moveIndex + 1]
      nextBoard == applyMove(top.board, m)
      c == getCanonicalBits(nextBoard)
      grown == validMoves(c.board, buf)
  IN  [m |-> m, nextBoard |-> nextBoard, canonical |-> c.board,
       moves |-> grown,
       frame |-> StackFrame(c.board, top.moveEnd,
                            top.moveEnd + (Len(grown) - Len(buf)), top.moveEnd,
                            IF c.transform # DEGREE_0
                            THEN Append(top.transforms, c.transform)
                            ELSE top.transforms,
                            << m >>)]

\* a step that canonicalises the position before the move instead of the
\* position after it
ExpandStale(top, buf) ==
  LET m == buf[top.moveIndex + 1]
      nextBoard == top.board
      c == getCanonicalBits(nextBoard)
      grown == validMoves(c.board, buf)
  IN  [m |-> m, nextBoard |-> nextBoard, canonical |-> c.board,
       moves |-> grown,
       frame |-> StackFrame(c.board, Len(buf), Len(grown), Len(buf),
                            IF c.transform # DEGREE_0
                            THEN Append(top.transforms, c.transform)
                            ELSE top.transforms,
                            << m >>)]

\* what one loop iteration computes from the top frame when it has a move left
Expand(top, buf) ==
  LET m == buf[top.moveIndex + 1]
      nextBoard == applyMove(top.board, m)
      pushed(c, grown) ==
        [m |-> m, nextBoard |-> nextBoard, canonical |-> c.board,
         moves |-> grown,
         frame |-> StackFrame(c.board, Len(buf), Len(grown), Len(buf),
                              IF c.transform # DEGREE_0
                              THEN Append(top.transforms, c.transform)
                              ELSE top.transforms,
                              << m >>)]
  IN  \* getCanonicalBits and validMoves are each called once
      CHOOSE e \in UNION { { pushed(c, grown) :
                               grown \in { validMoves(c.board, buf) } } :
                             c \in { getCanonicalBits(nextBoard) } } : TRUE

\* a step that reads the move and leaves top.moveIndex where it was
AdvanceStays(stack) == stack

\* the stack after top.moveIndex++
Advance(stack) ==
  [stack EXCEPT ![Len(stack)].moveIndex = stack[Len(stack)].moveIndex + 1]

\* a clear that leaves the keys of the search before in the set
clearKeeps(s) == s

\* msBitmap::clear() on the set of keys s
clear(s) == {}

\* runDFS(dfs, seen, moves) as the function it is: the loop run to its
\* return, giving the returned vector and the visited set it leaves behind
RECURSIVE runDFS(_, _, _)
runDFS(stack, s, buf) ==
  IF stack = << >> THEN [result |-> << >>, seen |-> s]
  ELSE LET top == stack[Len(stack)]
       IN  IF top.moveIndex >= top.moveEnd
           THEN runDFS(SubSeq(stack, 1, Len(stack) - 1), s, buf)
           ELSE LET e == Expand(top, buf)
                    ts == testAndSet(s, e.canonical)
                IN  IF ts.hit
                    THEN runDFS(Advance(stack), ts.set, buf)
                    ELSE IF hasWon(e.nextBoard)
                    THEN [result |-> getMoveOrder(Append(Advance(stack), e.frame)),
                          seen |-> ts.set]
                    ELSE runDFS(Append(Advance(stack), e.frame), ts.set, e.moves)

\* msSolver::solve(startBoard) when the static visited set holds s on entry
solve(s, startBoard) ==
  LET root == RootSetup(startBoard)
  IN  runDFS(root.dfs, clear(s), root.moves)

\* getBestMove / getSolution: the MoveInfo made from solvable's result.  A
\* MoveInfo is carried as its literal text, or the lines toString produced
getBestMoveText(solution) ==
  IF solution = << >> THEN [text |-> "", lines |-> << >>]
  ELSE [text |-> "", lines |-> << toString(solution[1]) >>]

getSolutionText(solution) ==
  IF solution = << >> THEN [text |-> "No solution exists.", lines |-> << >>]
  ELSE [text |-> "", lines |-> [ i \in 1 .. Len(solution) |-> toString(solution[i]) ]]

(***************************************************************************)
(* State                                                                   *)
(***************************************************************************)
VARIABLES
  board,        \* msGame::board
  moveHistory,  \* msGame::moveHistory
  status,       \* "running", or "aborted" once an assertion failed
  op,           \* the last call made: name, arguments, return value, fault
  trail,        \* history variable: board and history before each move on
                \* moveHistory
  pc,           \* solver: "idle", "dfs", "done"
  api,          \* "none", "solve", "getBestMove", "getSolution"
  dfs,          \* the DFS stack
  moves,        \* the shared move buffer
  seen,         \* the visited set: packed keys
  liveSets,     \* hash sets solvable allocated with new and not yet deleted
  result,       \* the vector solve / solvable returned
  out,          \* the MoveInfo getBestMove / getSolution returned
  bitmap,       \* the visited set of the build with HAVE_16GB_RAM 1: the
                \* one-bits of the word array, as pairs << word, bit >>
  inserted,     \* history variable: the values given to testAndSet since
                \* the visited set was constructed or last cleared
  moveNum,      \* playGame: the move number of the prompt
  marblesLeft,  \* playGame: the marble counter of the prompt
  shown         \* playGame: what the last line read made the loop print

gameVars == << board, moveHistory, status, op, trail >>
setVars == << bitmap, inserted >>
solverVars == << pc, api, dfs, moves, seen, liveSets, result, out,
                bitmap, inserted >>
replVars == << moveNum, marblesLeft, shown >>
vars == << board, moveHistory, status, op, trail,
           pc, api, dfs, moves, seen, liveSets, result, out,
           bitmap, inserted, moveNum, marblesLeft, shown >>

Coords == (0 - CoordSlack) .. (MAX_COL + CoordSlack)

NoOp == [name |-> "none", args |-> << >>, ret |-> FALSE, fault |-> "none"]

NoText == [text |-> "", lines |-> << >>]

\* a message of the game loop
Said(text) == [text |-> text, lines |-> << >>]

\* playGame is not running: its locals as they are initialised
NoRepl ==
  /\ moveNum = INIT_MOVE_NUM
  /\ marblesLeft = INIT_MARBLE_CT
  /\ shown = Said("")

SolverIdle ==
  /\ pc = "idle"
  /\ api = "none"
  /\ dfs = << >>
  /\ moves = << >>
  /\ seen = {}
  /\ liveSets = 0
  /\ result = << >>
  /\ out = NoText
  /\ bitmap = {}
  /\ inserted = {}

\* msGame::msGame(): the default board, an empty history
Init ==
  /\ board = DEFAULT_BOARD
  /\ moveHistory = << >>
  /\ status = "running"
  /\ op = NoOp
  /\ trail = << >>
  /\ SolverIdle
  /\ NoRepl

(***************************************************************************)
(* Facade calls.  A call is one step; the caller then takes the returned   *)
(* value (Return) before it makes the next call.                           *)
(***************************************************************************)
AfterFault(f) == IF f = "assert" THEN "aborted" ELSE "running"

Ready == status = "running" /\ op.name = "none"

\* the value an out-of-bounds read of PLAYABLE may yield; a read inside the
\* table yields the table's entry, so nothing is drawn
Garbage(row, col) == IF InBoard(row, col) THEN {FALSE} ELSE BOOLEAN

\* a reset that replaces the board and leaves the history as it is
UseCustomBoardKeepsHistory(row, col) ==
  /\ Ready
  /\ board' = msBoardAt(row, col)
  /\ op' = [name |-> "useCustomBoard", args |-> << row, col >>,
            ret |-> FALSE, fault |-> "none"]
  /\ UNCHANGED << replVars, moveHistory, trail, status, solverVars >>

UseCustomBoard(row, col) ==
  /\ Ready
  /\ board' = msBoardAt(row, col)
  /\ moveHistory' = << >>
  /\ trail' = << >>
  /\ op' = [name |-> "useCustomBoard", args |-> << row, col >>,
            ret |-> FALSE, fault |-> "none"]
  /\ UNCHANGED << replVars, status, solverVars >>

IsValidMove(row, col, dir, g) ==
  /\ Ready
  /\ LET v == gameIsValidMove(board, row, col, dir, g)
     IN  /\ op' = [name |-> "isValidMove", args |-> << row, col, dir >>,
                   ret |-> v.ret, fault |-> v.fault]
         /\ status' = AfterFault(v.fault)
  /\ UNCHANGED << replVars, board, moveHistory, trail, solverVars >>

MakeMove(row, col, dir, g) ==
  /\ Ready
  /\ Len(moveHistory) < MaxHistory
  /\ LET r == gameMakeMove(board, moveHistory, row, col, dir, g)
     IN  /\ op' = [name |-> "makeMove", args |-> << row, col, dir >>,
                   ret |-> r.ret, fault |-> r.fault]
         /\ status' = AfterFault(r.fault)
         /\ board' = r.board
         /\ moveHistory' = r.moveHistory
         /\ trail' = IF r.ret
                     THEN Append(trail, [board |-> board,
                                         moveHistory |-> moveHistory])
                     ELSE trail
  /\ UNCHANGED << solverVars, replVars >>

UndoMove ==
  /\ Ready
  /\ LET r == gameUndoMove(board, moveHistory)
     IN  /\ op' = [name |-> "undoMove", args |-> << >>,
                   ret |-> r.ret, fault |-> "none"]
         /\ board' = r.board
         /\ moveHistory' = r.moveHistory
         /\ trail' = IF r.ret THEN SubSeq(trail, 1, Len(trail) - 1) ELSE trail
  /\ UNCHANGED << replVars, status, solverVars >>

Return ==
  /\ status = "running"
  /\ op.name # "none"
  /\ op' = NoOp
  /\ UNCHANGED << replVars, board, moveHistory, status, trail, solverVars >>

CallUseCustomBoard ==
  Ready /\ \E row \in Coords, col \in Coords : UseCustomBoard(row, col)

CallIsValidMove ==
  Ready /\ \E row \in Coords, col \in Coords, dir \in Directions :
             \E g \in Garbage(row, col) : IsValidMove(row, col, dir, g)

CallMakeMove ==
  Ready /\ \E row \in Coords, col \in Coords, dir \in Directions :
             \E g \in Garbage(row, col) : MakeMove(row, col, dir, g)

CallUndoMove == Ready /\ UndoMove

Next ==
  \/ CallUseCustomBoard
  \/ CallIsValidMove
  \/ CallMakeMove
  \/ CallUndoMove
  \/ Return

Spec == Init /\ [][Next]_vars

(***************************************************************************)
(* msBoard::isValidMove as a function of board and coordinates: the board  *)
(* is the default board after at most MaxValidDepth moves                  *)
(***************************************************************************)
RECURSIVE PlayedBoards(_)
PlayedBoards(k) ==
  IF k = 0 THEN {DEFAULT_BOARD}
  ELSE LET prev == PlayedBoards(k - 1)
       IN  prev \cup { applyMove(x[1], ALL_MOVES[x[2]]) :
                         x \in { y \in prev \X (1 .. Len(ALL_MOVES)) :
                                   MoveValidOn(y[1], ALL_MOVES[y[2]]) } }

InitValid ==
  /\ board \in PlayedBoards(MaxValidDepth)
  /\ moveHistory = << >>
  /\ status = "running"
  /\ op = NoOp
  /\ trail = << >>
  /\ SolverIdle
  /\ NoRepl

BoardIsValidMove(row, col, toRow, toCol, g) ==
  /\ Ready
  /\ LET v == isValidMove(board, row, col, toRow, toCol, g)
     IN  /\ op' = [name |-> "board.isValidMove",
                   args |-> << row, col, toRow, toCol >>,
                   ret |-> v.ret, fault |-> v.fault]
         /\ status' = AfterFault(v.fault)
  /\ UNCHANGED << replVars, board, moveHistory, trail, solverVars >>

CallBoardIsValidMove ==
  Ready /\ \E row \in Coords, col \in Coords, toRow \in Coords, toCol \in Coords :
             \E g \in Garbage(row, col) :
               BoardIsValidMove(row, col, toRow, toCol, g)

NextValid == CallBoardIsValidMove

SpecValid == InitValid /\ [][NextValid]_vars

(***************************************************************************)
(* The solvers on the boards of an end game: every board of 1..MaxMarbles  *)
(* marbles on playable cells is the facade's current board                 *)
(***************************************************************************)
\* the boards of k marbles, each built by adding its highest bit last
RECURSIVE BoardsWith(_)
BoardsWith(k) ==
  IF k = 0 THEN { EMPTY_BOARD }
  ELSE { x[1] \cup {x[2]} :
           x \in { y \in BoardsWith(k - 1) \X PlayableMask :
                     \A z \in y[1] : z < y[2] } }

SolverBoards(n) == UNION { BoardsWith(k) : k \in 1 .. n }

InitSolve ==
  /\ board \in SolverBoards(MaxMarbles)
  /\ moveHistory = << >>
  /\ status = "running"
  /\ op = NoOp
  /\ trail = << >>
  /\ SolverIdle
  /\ NoRepl

Top == dfs[Len(dfs)]

Pop(stack) == SubSeq(stack, 1, Len(stack) - 1)

\* msSolver::solve(board) up to the call of runDFS
\* a solve that enters the start position into the visited set
SolveBeginMarksRoot ==
  /\ pc = "idle"
  /\ pc' = "dfs"
  /\ api' = "solve"
  /\ seen' = { boardToBits(getCanonicalBits(board).board) }
  /\ LET root == RootSetup(board)
     IN  dfs' = root.dfs /\ moves' = root.moves
  /\ UNCHANGED << replVars, gameVars, setVars, liveSets, result, out >>

SolveBegin ==
  /\ pc = "idle"
  /\ pc' = "dfs"
  /\ api' = "solve"
  /\ seen' = {}
  /\ LET root == RootSetup(board)
     IN  dfs' = root.dfs /\ moves' = root.moves
  /\ UNCHANGED << replVars, gameVars, setVars, liveSets, result, out >>

\* runDFS: the loop condition fails
RunDFSEmpty ==
  /\ pc = "dfs" /\ api = "solve"
  /\ dfs = << >>
  /\ result' = << >>
  /\ pc' = "done"
  /\ UNCHANGED << replVars, gameVars, setVars, api, dfs, moves, seen, liveSets, out >>

\* runDFS: top's moves are used up; moves.reserve leaves the buffer as it is
RunDFSPop ==
  /\ pc = "dfs" /\ api = "solve"
  /\ dfs # << >>
  /\ Top.moveIndex >= Top.moveEnd
  /\ dfs' = Pop(dfs)
  /\ UNCHANGED << replVars, gameVars, setVars, pc, api, moves, seen, liveSets, result, out >>

\* runDFS: the canonical board of the next position was seen before
RunDFSSeen ==
  /\ pc = "dfs" /\ api = "solve"
  /\ dfs # << >>
  /\ Top.moveIndex < Top.moveEnd
  /\ \E e \in { Expand(Top, moves) } :
     \E ts \in { testAndSet(seen, e.canonical) } :
         /\ ts.hit
         /\ seen' = ts.set
         /\ dfs' = Advance(dfs)
  /\ UNCHANGED << replVars, gameVars, setVars, pc, api, moves, liveSets, result, out >>

\* runDFS: a new position that is not won: push its frame
RunDFSPush ==
  /\ pc = "dfs" /\ api = "solve"
  /\ dfs # << >>
  /\ Top.moveIndex < Top.moveEnd
  /\ \E e \in { Expand(Top, moves) } :
     \E ts \in { testAndSet(seen, e.canonical) } :
         /\ ~ts.hit
         /\ ~hasWon(e.nextBoard)
         /\ seen' = ts.set
         /\ moves' = e.moves
         /\ dfs' = Append(Advance(dfs), e.frame)
  /\ UNCHANGED << replVars, gameVars, setVars, pc, api, liveSets, result, out >>

\* runDFS: a new position that is won: push the terminal frame, rebuild
RunDFSWin ==
  /\ pc = "dfs" /\ api = "solve"
  /\ dfs # << >>
  /\ Top.moveIndex < Top.moveEnd
  /\ \E e \in { Expand(Top, moves) } :
     \E ts \in { testAndSet(seen, e.canonical) } :
         /\ ~ts.hit
         /\ hasWon(e.nextBoard)
         /\ seen' = ts.set
         /\ moves' = e.moves
         /\ dfs' = Append(Advance(dfs), e.frame)
         /\ result' = getMoveOrder(Append(Advance(dfs), e.frame))
  /\ pc' = "done"
  /\ UNCHANGED << replVars, gameVars, setVars, api, liveSets, out >>

\* what getBestMove / getSolution make of solvable's result
TextOf(a, solution) ==
  IF a = "getBestMove" THEN getBestMoveText(solution)
  ELSE getSolutionText(solution)

\* getBestMove() / getSolution() up to the loop of solvable(board): with
\* HAVE_16GB_RAM 0 a hash set is allocated with new for this call
SolvableBegin(a) ==
  /\ pc = "idle"
  /\ pc' = "dfs"
  /\ api' = a
  /\ liveSets' = liveSets + 1
  /\ seen' = {}
  /\ LET root == RootSetup(board)
     IN  dfs' = root.dfs /\ moves' = root.moves
  /\ UNCHANGED << replVars, gameVars, setVars, result, out >>

\* solvable: the loop condition fails; the set is not deleted on this path
SolvableEmpty ==
  /\ pc = "dfs" /\ api \in {"getBestMove", "getSolution"}
  /\ dfs = << >>
  /\ result' = << >>
  /\ out' = TextOf(api, << >>)
  /\ pc' = "done"
  /\ UNCHANGED << replVars, gameVars, setVars, api, dfs, moves, seen, liveSets >>

SolvablePop ==
  /\ pc = "dfs" /\ api \in {"getBestMove", "getSolution"}
  /\ dfs # << >>
  /\ Top.moveIndex >= Top.moveEnd
  /\ dfs' = Pop(dfs)
  /\ UNCHANGED << replVars, gameVars, setVars, pc, api, moves, seen, liveSets, result, out >>

SolvableSeen ==
  /\ pc = "dfs" /\ api \in {"getBestMove", "getSolution"}
  /\ dfs # << >>
  /\ Top.moveIndex < Top.moveEnd
  /\ \E e \in { Expand(Top, moves) } :
     \E ts \in { testAndSet(seen, e.canonical) } :
         /\ ts.hit
         /\ seen' = ts.set
         /\ dfs' = Advance(dfs)
  /\ UNCHANGED << replVars, gameVars, setVars, pc, api, moves, liveSets, result, out >>

SolvablePush ==
  /\ pc = "dfs" /\ api \in {"getBestMove", "getSolution"}
  /\ dfs # << >>
  /\ Top.moveIndex < Top.moveEnd
  /\ \E e \in { Expand(Top, moves) } :
     \E ts \in { testAndSet(seen, e.canonical) } :
         /\ ~ts.hit
         /\ ~hasWon(e.nextBoard)
         /\ seen' = ts.set
         /\ moves' = e.moves
         /\ dfs' = Append(Advance(dfs), e.frame)
  /\ UNCHANGED << replVars, gameVars, setVars, pc, api, liveSets, result, out >>

\* solvable: a new position that is won: the set is deleted and getMoveOrder
\* is given the stack as it stands; no frame is pushed for the winning move
SolvableWin ==
  /\ pc = "dfs" /\ api \in {"getBestMove", "getSolution"}
  /\ dfs # << >>
  /\ Top.moveIndex < Top.moveEnd
  /\ \E e \in { Expand(Top, moves) } :
     \E ts \in { testAndSet(seen, e.canonical) } :
         /\ ~ts.hit
         /\ hasWon(e.nextBoard)
         /\ seen' = ts.set
         /\ dfs' = Advance(dfs)
         /\ result' = getMoveOrder(Advance(dfs))
         /\ out' = TextOf(api, getMoveOrder(Advance(dfs)))
  /\ liveSets' = liveSets - 1
  /\ pc' = "done"
  /\ UNCHANGED << replVars, gameVars, setVars, api, moves >>

NextSolve ==
  \/ SolveBegin
  \/ RunDFSEmpty
  \/ RunDFSPop
  \/ RunDFSSeen
  \/ RunDFSPush
  \/ RunDFSWin
  \/ \E a \in {"getBestMove", "getSolution"} : SolvableBegin(a)
  \/ SolvableEmpty
  \/ SolvablePop
  \/ SolvableSeen
  \/ SolvablePush
  \/ SolvableWin

SpecSolve == InitSolve /\ [][NextSolve]_vars

(***************************************************************************)
(* The msBoard functions as calls on a board: every board of               *)
(* 1..MaxBoardMarbles marbles on playable cells is the input, op holds the *)
(* last call and what it returned; some calls are made on the value the    *)
(* call before returned.                                                   *)
(***************************************************************************)
InitBoard ==
  /\ board \in SolverBoards(MaxBoardMarbles)
  /\ moveHistory = << >>
  /\ status = "running"
  /\ op = NoOp
  /\ trail = << >>
  /\ SolverIdle
  /\ NoRepl

Called(name, args, ret) ==
  [name |-> name, args |-> args, ret |-> ret, fault |-> "none"]

BoardUnchanged == UNCHANGED << replVars, board, moveHistory, status, trail, solverVars >>

\* board.getCanonicalBits()
Canonicalize ==
  /\ Ready
  /\ op' = Called("getCanonicalBits", << >>, getCanonicalBits(board))
  /\ BoardUnchanged

\* getCanonicalBits() of the canonical board the call before returned
Recanonicalize ==
  /\ status = "running"
  /\ op.name = "getCanonicalBits"
  /\ op' = Called("recanonicalize", << op.ret >>,
                  getCanonicalBits(op.ret.board))
  /\ BoardUnchanged

\* transformBoard(board, t)
TransformBoard(t) ==
  /\ Ready
  /\ op' = Called("transformBoard", << t >>, transformBoard(board, t))
  /\ BoardUnchanged

\* transformBoard(image, inverseTransform(t)) of the image the call before
\* returned
TransformBack ==
  /\ status = "running"
  /\ op.name = "transformBoard"
  /\ op' = Called("transformBack", << op.args[1], inverseTransform(op.args[1]) >>,
                  transformBoard(op.ret, inverseTransform(op.args[1])))
  /\ BoardUnchanged

\* getCanonicalBits() of the image the call before returned
CanonicalizeImage ==
  /\ status = "running"
  /\ op.name = "transformBoard"
  /\ op' = Called("canonicalizeImage", op.args, getCanonicalBits(op.ret))
  /\ BoardUnchanged

\* board.boardToBits()
BoardToBits ==
  /\ Ready
  /\ op' = Called("boardToBits", << >>, boardToBits(board))
  /\ BoardUnchanged

\* board.applyMove(m) for a table move m that validMoves lists for the board
ApplyMove(m) ==
  /\ Ready
  /\ MoveValidOn(board, m)
  /\ op' = Called("applyMove", << m >>, applyMove(board, m))
  /\ BoardUnchanged

\* undoMove(m) on the board the call before returned
UndoApplied ==
  /\ status = "running"
  /\ op.name = "applyMove"
  /\ op' = Called("undoApplied", op.args, undoMove(op.ret, op.args[1]))
  /\ BoardUnchanged

\* the move m seen through transform t: both masks transformed
transformMove(m, t) ==
  Move(transformBoard(m.setBit, t), transformBoard(m.clearBits, t))

\* the move applied, then the transform; and the transform, then the
\* transformed move applied
ApplyTransformed(m, t) ==
  /\ Ready
  /\ MoveValidOn(board, m)
  /\ op' = Called("applyTransformed", << m, t >>,
                  [moved |-> transformBoard(applyMove(board, m), t),
                   image |-> transformBoard(board, t),
                   move |-> transformMove(m, t),
                   imageMoved |-> applyMove(transformBoard(board, t),
                                            transformMove(m, t))])
  /\ BoardUnchanged

CallTransformBoard == Ready /\ \E t \in Transforms : TransformBoard(t)

CallApplyMove ==
  Ready /\ \E i \in 1 .. Len(ALL_MOVES) : ApplyMove(ALL_MOVES[i])

CallApplyTransformed ==
  Ready /\ \E i \in 1 .. Len(ALL_MOVES), t \in Transforms :
             ApplyTransformed(ALL_MOVES[i], t)

NextBoard ==
  \/ Canonicalize
  \/ Recanonicalize
  \/ CallTransformBoard
  \/ TransformBack
  \/ CanonicalizeImage
  \/ BoardToBits
  \/ CallApplyMove
  \/ UndoApplied
  \/ CallApplyTransformed
  \/ Return

SpecBoard == InitBoard /\ [][NextBoard]_vars

(***************************************************************************)
(* An msBoard object through its life: built by a constructor (InitReach),  *)
(* then changed by applyMove, by undoMove of the moves applied to it, and  *)
(* replaced by a transformed or the canonical board (after which the moves *)
(* applied before no longer belong to it).  At most MaxValidDepth marbles  *)
(* are off a start board.                                                  *)
(***************************************************************************)
\* the object as msBoard() or msBoard(row, col) built it
InitReach ==
  /\ board \in {DEFAULT_BOARD}
                 \cup { msBoardAt(row, col) : row \in Coords, col \in Coords }
  /\ moveHistory = << >>
  /\ status = "running"
  /\ op = NoOp
  /\ trail = << >>
  /\ SolverIdle
  /\ NoRepl

\* board = board.applyMove(m) for a move validMoves lists
ReachApplyMove(m) ==
  /\ popcount(board) > popcount(DEFAULT_BOARD) - MaxValidDepth
  /\ MoveValidOn(board, m)
  /\ board' = applyMove(board, m)
  /\ moveHistory' = Append(moveHistory, m)
  /\ op' = Called("applyMove", << m >>, applyMove(board, m))
  /\ UNCHANGED << replVars, status, trail, solverVars >>

\* board.undoMove(m) for the last move applied
ReachUndoMove ==
  /\ moveHistory # << >>
  /\ board' = undoMove(board, moveHistory[Len(moveHistory)])
  /\ moveHistory' = SubSeq(moveHistory, 1, Len(moveHistory) - 1)
  /\ op' = Called("undoMove", << moveHistory[Len(moveHistory)] >>,
                  undoMove(board, moveHistory[Len(moveHistory)]))
  /\ UNCHANGED << replVars, status, trail, solverVars >>

\* board = transformBoard(board, t)
ReachTransform(t) ==
  /\ board' = transformBoard(board, t)
  /\ moveHistory' = << >>
  /\ op' = Called("transformBoard", << t >>, transformBoard(board, t))
  /\ UNCHANGED << replVars, status, trail, solverVars >>

\* board = board.getCanonicalBits().first
ReachCanonicalize ==
  /\ board' = getCanonicalBits(board).board
  /\ moveHistory' = << >>
  /\ op' = Called("getCanonicalBits", << >>, getCanonicalBits(board))
  /\ UNCHANGED << replVars, status, trail, solverVars >>

CallReachApplyMove ==
  \E i \in 1 .. Len(ALL_MOVES) : ReachApplyMove(ALL_MOVES[i])

CallReachTransform == \E t \in Transforms : ReachTransform(t)

NextReach ==
  \/ CallReachApplyMove
  \/ ReachUndoMove
  \/ CallReachTransform
  \/ ReachCanonicalize

SpecReach == InitReach /\ [][NextReach]_vars

(***************************************************************************)
(* msSolver::solve on the start boards of the two full-board scenarios,    *)
(* full board less (1,3) and full board less (0,2): the search is followed *)
(* from its first step until the visited set holds MaxSeen positions.      *)
(***************************************************************************)
ScenarioStarts == { msBoardAt(1, 3), msBoardAt(0, 2) }

InitStart ==
  /\ board \in ScenarioStarts
  /\ moveHistory = << >>
  /\ status = "running"
  /\ op = NoOp
  /\ trail = << >>
  /\ SolverIdle
  /\ NoRepl

Searching == pc = "dfs" /\ Cardinality(seen) < MaxSeen

NextStart ==
  \/ SolveBegin
  \/ Searching /\ RunDFSPop
  \/ Searching /\ RunDFSSeen
  \/ Searching /\ RunDFSPush

SpecStart == InitStart /\ [][NextStart]_vars

(***************************************************************************)
(* msSolver::solve as a call.  The visited set is the function's static    *)
(* object and lives from call to call; stack and move buffer are locals of *)
(* a call.  SpecImage: a call on a board, then calls on its images.        *)
(* SpecCalls: a process that makes one call after another, on the boards   *)
(* whose marbles are on the middle row.                                    *)
(***************************************************************************)
SolveCall(b, name, args) ==
  /\ status = "running"
  /\ \E r \in { solve(seen, b) } :
         /\ result' = r.result
         /\ seen' = r.seen
         /\ op' = Called(name, args, r.result)
  /\ board' = b
  /\ pc' = "done"
  /\ api' = "solve"
  /\ UNCHANGED << replVars, moveHistory, status, trail, dfs, moves, liveSets, out, setVars >>

\* the first call of the process
Solve == pc = "idle" /\ SolveCall(board, "solve", << >>)

\* the next call, on the image under t of the board of the first call
SolveImage(t) ==
  /\ pc = "done"
  /\ op.name = "solve"
  /\ SolveCall(transformBoard(board, t), "solveImage", << t, board, result >>)

CallSolveImage == pc = "done" /\ \E t \in Transforms : SolveImage(t)

NextImage ==
  \/ Solve
  \/ CallSolveImage

SpecImage == InitBoard /\ [][NextImage]_vars

\* the boards of 1..n marbles, all on the middle row
RowBoards(n) ==
  { s \in SUBSET { bitIndex(MAX_ROW \div 2, c) : c \in 0 .. MAX_COL } :
      Cardinality(s) \in 1 .. n }

InitCalls ==
  /\ board \in RowBoards(MaxBoardMarbles)
  /\ moveHistory = << >>
  /\ status = "running"
  /\ op = NoOp
  /\ trail = << >>
  /\ SolverIdle
  /\ NoRepl

\* a later call, on any of the boards; args tell whether the call before
\* left keys in the visited set and whether it found a solution
SolveNext(b) ==
  /\ pc = "done"
  /\ SolveCall(b, "solveNext", << seen # {}, result # << >> >>)

CallSolveNext ==
  pc = "done" /\ \E b \in RowBoards(MaxBoardMarbles) : SolveNext(b)

NextCalls ==
  \/ Solve
  \/ CallSolveNext

SpecCalls == InitCalls /\ [][NextCalls]_vars

(***************************************************************************)
(* msSolver::solve from its call to its return, under the scheduling of a  *)
(* running process (the loop goes on while it can).  The boards are those  *)
(* of 1..MaxMarbles marbles on the middle row, searched to the end, and    *)
(* the full board less (2,2), whose search is followed until the visited   *)
(* set holds MaxSeen positions.                                            *)
(***************************************************************************)
InitLive ==
  /\ board \in RowBoards(MaxMarbles) \cup { msBoardAt(2, 2) }
  /\ moveHistory = << >>
  /\ status = "running"
  /\ op = NoOp
  /\ trail = << >>
  /\ SolverIdle
  /\ NoRepl

NextLive ==
  \/ SolveBegin
  \/ RunDFSEmpty
  \/ Searching /\ RunDFSPop
  \/ Searching /\ RunDFSPush
  \/ Searching /\ RunDFSSeen
  \/ Searching /\ RunDFSWin

SpecLive == InitLive /\ [][NextLive]_vars /\ WF_vars(NextLive)

(***************************************************************************)
(* The visited set on its own: any sequence of testAndSet and clear, made  *)
(* on both builds of msBitmap side by side (seen: the hash set of          *)
(* HAVE_16GB_RAM 0, bitmap: the bit array of HAVE_16GB_RAM 1).  The values *)
(* are the start boards with the empty cell on the middle column, the      *)
(* board with one marble on the first playable cell and the board with one *)
(* marble on the last.                                                     *)
(***************************************************************************)
SetValues ==
  { msBoardAt(r, MAX_COL \div 2) : r \in 0 .. MAX_ROW }
    \cup { { bitIndex(0, COL_START_IDX[1]) },
           { bitIndex(MAX_ROW, COL_END_IDX[NUM_ROWS]) } }

\* what the two builds return
Answers(sparse, dense) == [sparse |-> sparse, dense |-> dense]

\* both sets as their constructors leave them
InitSet ==
  /\ board = DEFAULT_BOARD
  /\ moveHistory = << >>
  /\ status = "running"
  /\ op = Called("none", << >>, Answers(FALSE, FALSE))
  /\ trail = << >>
  /\ SolverIdle
  /\ NoRepl

SetTestAndSet(value) ==
  /\ LET s == testAndSet(seen, value)
         d == testAndSetDense(bitmap, value)
     IN  /\ seen' = s.set
         /\ bitmap' = d.bitmap
         /\ op' = [name |-> "testAndSet", args |-> << value >>,
                   ret |-> Answers(s.hit, d.hit),
                   fault |-> d.fault]
  /\ inserted' = inserted \cup { value }
  /\ UNCHANGED << replVars, board, moveHistory, status, trail,
                  pc, api, dfs, moves, liveSets, result, out >>

SetClear ==
  /\ seen' = clear(seen)
  /\ bitmap' = clearDense(bitmap)
  /\ op' = Called("clear", << >>, Answers(FALSE, FALSE))
  /\ inserted' = {}
  /\ UNCHANGED << replVars, board, moveHistory, status, trail,
                  pc, api, dfs, moves, liveSets, result, out >>

CallSetTestAndSet == \E value \in SetValues : SetTestAndSet(value)

NextSet ==
  \/ CallSetTestAndSet
  \/ SetClear

SpecSet == InitSet /\ [][NextSet]_vars

(***************************************************************************)
(* The whole facade on one msGame object: every public call of msGame.h,   *)
(* the two solving calls step by step.  The object is met late in a game   *)
(* played from the default board, when at most MaxGameMarbles marbles are  *)
(* left; getBestMove and getSolution are followed on boards of at most     *)
(* MaxGameMarbles marbles.  No call begins while another is running        *)
(* (pc = "idle").                                                          *)
(***************************************************************************)
\* a game on the default board, as the lines "row col direction" a player
\* gives to makeMove one after the other
GameLines ==
  << <<2, 2, UP>>, <<4, 2, UP>>, <<4, 4, LEFT>>, <<6, 3, UP>>,
     <<3, 3, DOWN>>, <<1, 4, LEFT>>, <<5, 2, UP>>, <<5, 4, LEFT>>,
     <<5, 1, RIGHT>>, <<4, 6, LEFT>>, <<1, 1, RIGHT>>, <<2, 5, DOWN>>,
     <<2, 3, RIGHT>>, <<3, 2, UP>>, <<2, 0, RIGHT>>, <<1, 2, DOWN>>,
     <<2, 6, LEFT>>, <<3, 4, UP>>, <<0, 4, DOWN>>, <<4, 0, RIGHT>>,
     <<3, 2, DOWN>>, <<3, 0, RIGHT>>, <<4, 5, LEFT>>, <<6, 2, UP>>,
     <<3, 2, DOWN>>, <<5, 2, RIGHT>>, <<6, 4, UP>>, <<4, 3, RIGHT>>,
     <<5, 5, UP>>, <<3, 6, LEFT>>, <<3, 4, UP>>, <<0, 3, DOWN>>,
     <<1, 5, LEFT>>, <<2, 3, UP>>, <<0, 2, RIGHT>> >>

\* the object s after makeMove(l[1], l[2], l[3])
AfterLine(s, l) ==
  LET r == gameMakeMove(s.board, s.moveHistory, l[1], l[2], l[3], FALSE)
  IN  [board |-> r.board,
       moveHistory |-> r.moveHistory,
       trail |-> IF r.ret
                 THEN Append(s.trail, [board |-> s.board,
                                       moveHistory |-> s.moveHistory])
                 ELSE s.trail]

\* the object s after makeMove was called with lines i .. n of the game;
\* no line is read once the board has no move left
RECURSIVE PlayedFrom(_, _, _)
PlayedFrom(s, i, n) ==
  IF i > n \/ ~gameHasMoves(s.board) THEN s
  ELSE PlayedFrom(AfterLine(s, GameLines[i]), i + 1, n)

\* the object after makeMove was called with the first n lines of the game
Played(n) ==
  PlayedFrom([board |-> DEFAULT_BOARD, moveHistory |-> << >>,
              trail |-> << >>], 1, n)

InitGame ==
  /\ \E n \in 0 .. Len(GameLines) :
       /\ Cardinality(Played(n).board) <= MaxGameMarbles
       /\ board = Played(n).board
       /\ moveHistory = Played(n).moveHistory
       /\ trail = Played(n).trail
  /\ status = "running"
  /\ op = NoOp
  /\ SolverIdle
  /\ NoRepl

\* msGame::hasMoves()
HasMoves ==
  /\ Ready
  /\ op' = [name |-> "hasMoves", args |-> << >>,
            ret |-> gameHasMoves(board), fault |-> "none"]
  /\ UNCHANGED << replVars, board, moveHistory, status, trail, solverVars >>

\* msGame::hasWon()
HasWon ==
  /\ Ready
  /\ op' = [name |-> "hasWon", args |-> << >>,
            ret |-> hasWon(board), fault |-> "none"]
  /\ UNCHANGED << replVars, board, moveHistory, status, trail, solverVars >>

\* a solving call that canonicalizes the game's own board where it stands
GetTextInPlace(a) ==
  /\ Ready
  /\ Cardinality(board) <= MaxGameMarbles
  /\ liveSets < MaxLiveSets
  /\ pc = "idle"
  /\ pc' = "dfs"
  /\ api' = a
  /\ liveSets' = liveSets + 1
  /\ seen' = {}
  /\ board' = getCanonicalBits(board).board
  /\ LET root == RootSetup(board)
     IN  dfs' = root.dfs /\ moves' = root.moves
  /\ UNCHANGED << replVars, moveHistory, status, op, trail, setVars, result, out >>

\* getBestMove() / getSolution() is called: solvable(board) takes the board
\* by value
GetText(a) ==
  /\ Ready
  /\ Cardinality(board) <= MaxGameMarbles
  /\ liveSets < MaxLiveSets
  /\ SolvableBegin(a)

\* getBestMove() / getSolution() returns its string: the locals of solvable
\* are gone, a set that was not deleted stays allocated
ReturnText ==
  /\ pc = "done"
  /\ pc' = "idle"
  /\ api' = "none"
  /\ dfs' = << >>
  /\ moves' = << >>
  /\ seen' = {}
  /\ result' = << >>
  /\ out' = NoText
  /\ UNCHANGED << replVars, gameVars, setVars, liveSets >>

NextGame ==
  \/ pc = "idle" /\ CallUseCustomBoard
  \/ pc = "idle" /\ CallIsValidMove
  \/ pc = "idle" /\ CallMakeMove
  \/ pc = "idle" /\ CallUndoMove
  \/ pc = "idle" /\ HasMoves
  \/ pc = "idle" /\ HasWon
  \/ pc = "idle" /\ Return
  \/ \E a \in {"getBestMove", "getSolution"} : GetText(a)
  \/ SolvableEmpty
  \/ SolvablePop
  \/ SolvableSeen
  \/ SolvablePush
  \/ SolvableWin
  \/ ReturnText

SpecGame == InitGame /\ [][NextGame]_vars

(***************************************************************************)
(* main.cpp: setupGame, then playGame reading lines.  A line is a move     *)
(* ("row col direction"), "hint", "undo", the solution phrase or anything  *)
(* else; op holds the kind of the last line read and what validInput said  *)
(* of it.  Sessions start after setupGame, or further into the game of     *)
(* GameLines typed into a session on the default board; moves are read     *)
(* while the history holds fewer than MaxHistory moves or the board has at *)
(* most MaxGameMarbles marbles, and hints and solutions are asked for on   *)
(* boards of at most MaxGameMarbles marbles.                               *)
(***************************************************************************)
ReplState ==
  [board |-> board, moveHistory |-> moveHistory, trail |-> trail,
   status |-> status, moveNum |-> moveNum, marblesLeft |-> marblesLeft,
   shown |-> shown]

\* setupGame() with the coordinates read, and the locals of playGame
setupGame(row, col) ==
  [board |-> msBoardAt(row, col), moveHistory |-> << >>, trail |-> << >>,
   status |-> "running", moveNum |-> INIT_MOVE_NUM,
   marblesLeft |-> INIT_MARBLE_CT, shown |-> Said("")]

\* validInput(input, game) for a line that parses as "row col direction"
validInput(s, row, col, dir, g) == gameIsValidMove(s.board, row, col, dir, g)

\* one pass of the loop for a line "row col direction": makeMove and
\* marblesLeft-- if validInput accepts it, then the prompt with ++moveNum;
\* the invalid-move message and continue if it does not
OnMove(s, row, col, dir, g) ==
  LET v == validInput(s, row, col, dir, g)
      r == gameMakeMove(s.board, s.moveHistory, row, col, dir, g)
  IN  IF v.fault = "assert" THEN [s EXCEPT !.status = "aborted"]
      ELSE IF v.ret
      THEN [s EXCEPT !.board = r.board,
                     !.moveHistory = r.moveHistory,
                     !.trail = IF r.ret
                               THEN Append(s.trail,
                                           [board |-> s.board,
                                            moveHistory |-> s.moveHistory])
                               ELSE s.trail,
                     !.status = AfterFault(r.fault),
                     !.marblesLeft = s.marblesLeft - 1,
                     !.moveNum = s.moveNum + 1,
                     !.shown = Said("")]
      ELSE [s EXCEPT !.shown = Said("Invalid move. Please enter again: ")]

\* a pass for "undo" that calls undoMove without looking at the counter
OnUndoUnchecked(s) ==
  LET r == gameUndoMove(s.board, s.moveHistory)
  IN  [s EXCEPT !.board = r.board,
                !.moveHistory = r.moveHistory,
                !.trail = IF r.ret THEN SubSeq(s.trail, 1, Len(s.trail) - 1)
                          ELSE s.trail,
                !.marblesLeft = s.marblesLeft + 1,
                !.moveNum = s.moveNum + 1,
                !.shown = Said("")]

\* one pass of the loop for the line "undo"
OnUndo(s) ==
  IF s.marblesLeft = INIT_MARBLE_CT
  THEN [s EXCEPT !.shown = Said("No moves to undo!"),
                 !.moveNum = s.moveNum + 1]
  ELSE LET r == gameUndoMove(s.board, s.moveHistory)
       IN  [s EXCEPT !.board = r.board,
                     !.moveHistory = r.moveHistory,
                     !.trail = IF r.ret
                               THEN SubSeq(s.trail, 1, Len(s.trail) - 1)
                               ELSE s.trail,
                     !.marblesLeft = s.marblesLeft + 1,
                     !.moveNum = s.moveNum + 1,
                     !.shown = Said("")]

\* one pass of the loop for a line that is none of the above
OnOther(s) == [s EXCEPT !.shown = Said("Invalid move. Please enter again: ")]

\* the session after lines i .. n of the game were read; the loop ends when
\* the board has no move left
RECURSIVE ReplPlayedFrom(_, _, _)
ReplPlayedFrom(s, i, n) ==
  IF i > n \/ ~gameHasMoves(s.board) THEN s
  ELSE ReplPlayedFrom(OnMove(s, GameLines[i][1], GameLines[i][2],
                             GameLines[i][3], FALSE), i + 1, n)

\* the session on the default board (the empty cell is (0, 2)) after the
\* first n lines of the game
ReplPlayed(n) == ReplPlayedFrom(setupGame(0, 2), 1, n)

Becomes(s) ==
  /\ board' = s.board
  /\ moveHistory' = s.moveHistory
  /\ trail' = s.trail
  /\ status' = s.status
  /\ moveNum' = s.moveNum
  /\ marblesLeft' = s.marblesLeft
  /\ shown' = s.shown

Line(kind, accepted) ==
  [name |-> kind, args |-> << >>, ret |-> accepted, fault |-> "none"]

InitRepl ==
  /\ \E s \in { setupGame(row, col) : row \in Coords, col \in Coords }
              \cup { t \in { ReplPlayed(n) : n \in 1 .. Len(GameLines) } :
                       Cardinality(t.board) <= MaxGameMarbles } :
       /\ board = s.board
       /\ moveHistory = s.moveHistory
       /\ trail = s.trail
       /\ status = s.status
       /\ moveNum = s.moveNum
       /\ marblesLeft = s.marblesLeft
       /\ shown = s.shown
  /\ op = NoOp
  /\ SolverIdle

\* game.hasMoves() holds and the next line is about to be read
Reading == status = "running" /\ pc = "idle" /\ gameHasMoves(board)

\* the session is among those followed when it reads one more move
MovesFollowed ==
  Len(moveHistory) < MaxHistory \/ Cardinality(board) <= MaxGameMarbles

OtherLines == moveNum - INIT_MOVE_NUM - Len(moveHistory)

LineMove(row, col, dir, g) ==
  /\ status = "running" /\ pc = "idle"
  /\ \E s \in { OnMove(ReplState, row, col, dir, g) } :
       /\ Becomes(s)
       /\ op' = Line("move", s.moveNum # moveNum)
  /\ UNCHANGED solverVars

LineUndo ==
  /\ status = "running" /\ pc = "idle"
  /\ OtherLines < MaxOtherLines
  /\ Becomes(OnUndo(ReplState))
  /\ op' = Line("undo", FALSE)
  /\ UNCHANGED solverVars

LineOther ==
  /\ status = "running" /\ pc = "idle"
  /\ Becomes(OnOther(ReplState))
  /\ op' = Line("other", FALSE)
  /\ UNCHANGED solverVars

\* "hint" or the solution phrase: getBestMove() / getSolution() is entered
LineAsks(kind, a) ==
  /\ status = "running" /\ pc = "idle"
  /\ OtherLines < MaxOtherLines
  /\ Cardinality(board) <= MaxGameMarbles
  /\ liveSets < MaxLiveSets
  /\ pc' = "dfs"
  /\ api' = a
  /\ liveSets' = liveSets + 1
  /\ seen' = {}
  /\ \E root \in { RootSetup(board) } : dfs' = root.dfs /\ moves' = root.moves
  /\ op' = Line(kind, FALSE)
  /\ UNCHANGED << replVars, board, moveHistory, trail, status, setVars,
                  result, out >>

\* the call has returned: the hint or the solution is printed, then the
\* prompt with ++moveNum.  A hint that is not empty is computed a second
\* time for printing, with the same result.
LineAnswered ==
  /\ status = "running" /\ pc = "done"
  /\ op.name \in {"hint", "solution"}
  /\ shown' = IF op.name = "solution" THEN out
              ELSE IF out.lines = << >>
              THEN Said("No solution for this board. Try undoing!")
              ELSE [text |-> "Best move: ", lines |-> out.lines]
  /\ moveNum' = moveNum + 1
  /\ pc' = "idle"
  /\ api' = "none"
  /\ dfs' = << >>
  /\ moves' = << >>
  /\ seen' = {}
  /\ result' = << >>
  /\ out' = NoText
  /\ UNCHANGED << gameVars, setVars, liveSets, marblesLeft >>

NextRepl ==
  \/ Reading /\ MovesFollowed
       /\ \E row \in Coords, col \in Coords, dir \in Directions :
            \E g \in Garbage(row, col) : LineMove(row, col, dir, g)
  \/ Reading /\ LineUndo
  \/ Reading /\ LineOther
  \/ Reading /\ LineAsks("hint", "getBestMove")
  \/ Reading /\ LineAsks("solution", "getSolution")
  \/ SolvableEmpty
  \/ SolvablePop
  \/ SolvableSeen
  \/ SolvablePush
  \/ SolvableWin
  \/ LineAnswered

SpecRepl == InitRepl /\ [][NextRepl]_vars

(***************************************************************************)
(* Reference notions the properties are stated with.  They are written     *)
(* from the rules of the game, on cells and bit sets, not from the code    *)
(* paths above.                                                            *)
(***************************************************************************)
TableMoves == { ALL_MOVES[i] : i \in 1 .. Len(ALL_MOVES) }

\* m is a jump of the move table that the position b allows
Legal(b, m) ==
  /\ m \in TableMoves
  /\ m.clearBits \subseteq b
  /\ m.setBit \cap b = {}

Jump(b, m) == (b \cup m.setBit) \ m.clearBits

\* some sequence of one or more legal jumps from b ends with one marble
RECURSIVE Winnable(_)
Winnable(b) ==
  \E m \in { x \in TableMoves : Legal(b, x) } :
    Cardinality(Jump(b, m)) = 1 \/ Winnable(Jump(b, m))

\* every move of sol is legal where it is played, and one marble is left
RECURSIVE ReplayWins(_, _)
ReplayWins(b, sol) ==
  IF sol = << >> THEN Cardinality(b) = 1
  ELSE Legal(b, Head(sol)) /\ ReplayWins(Jump(b, Head(sol)), Tail(sol))

DirNames == { "up", "down", "left", "right" }

DirNamed(name) ==
  IF name = "up" THEN UP ELSE IF name = "down" THEN DOWN
  ELSE IF name = "left" THEN LEFT ELSE RIGHT

\* line is "r c direction" for a cell of the grid and a direction name
WellFormedLine(line) == InBoard(line[1], line[2]) /\ line[3] \in DirNames

\* makeMove accepts every line in turn and hasWon holds at the end
RECURSIVE ReplayLines(_, _, _)
ReplayLines(b, hist, lines) ==
  IF lines = << >> THEN hasWon(b)
  ELSE /\ WellFormedLine(Head(lines))
       /\ LET l == Head(lines)
              r == gameMakeMove(b, hist, l[1], l[2], DirNamed(l[3]), FALSE)
          IN  r.ret /\ ReplayLines(r.board, r.moveHistory, Tail(lines))

\* the rule of the game for a jump from (r, c) to (r2, c2) on b
JumpAllowed(b, r, c, r2, c2) ==
  /\ InBoard(r, c) /\ InBoard(r2, c2)
  /\ Playable(r, c) /\ Playable(r2, c2)
  /\ \/ (Abs(r - r2) = 2 /\ c = c2)
     \/ (Abs(c - c2) = 2 /\ r = r2)
  /\ bitIndex(r, c) \in b
  /\ bitIndex(r2, c2) \notin b
  /\ bitIndex((r + r2) \div 2, (c + c2) \div 2) \in b

\* a cell off the grid has no bit
CellBit(r, c) == IF InBoard(r, c) THEN { bitIndex(r, c) } ELSE {}

\* the same jump as an entry of the move table passing the bitmask test
JumpInTable(b, r, c, r2, c2) ==
  Legal(b, Move(CellBit(r2, c2),
                CellBit(r, c) \cup CellBit((r + r2) \div 2, (c + c2) \div 2)))

SolveDone == pc = "done" /\ api = "solve"

BestMoveDone == pc = "done" /\ api = "getBestMove"

SolutionDone == pc = "done" /\ api = "getSolution"

(***************************************************************************)
(* Properties                                                              *)
(***************************************************************************)

\* C1: whenever solve(B) returns a non-empty sequence, playing the returned
\* moves in order on B itself finds each move legal on the board it meets
\* and ends on a board with one marble, whichever transforms
\* canonicalisation chose at the root and along the path.
C1_ReplaySolvesStart ==
  (SolveDone /\ result # << >>) => ReplayWins(board, result)

\* C2 (as stated): solve(B) returns the empty sequence if and only if no
\* sequence of legal moves from B, the empty sequence included, reaches a
\* board with one marble.
C2_EmptyIffNoWinReachable ==
  SolveDone => (result = << >> <=> ~(Cardinality(board) = 1 \/ Winnable(board)))

\* C2 (amended): solve(B) returns the empty sequence if and only if no
\* sequence of one or more legal moves from B reaches a board with one
\* marble; a board that already has one marble gets the empty sequence.
C2_EmptyIffNoWinningPlay ==
  SolveDone => (result = << >> <=> ~Winnable(board))

\* C2 witness: solve exhausted its search and returned empty on a board
\* that has legal moves, after pruning at least one repeated position.
C2_SearchExhausted ==
  /\ SolveDone
  /\ result = << >>
  /\ gameHasMoves(board)
  /\ Cardinality(seen) >= 2

\* C3: when getCanonicalBits on B returns the pair (C, t), transforming B
\* by t gives C, for each of the eight transform indices.
C3_TransformProducesCanonical ==
  op.name = "getCanonicalBits"
    => transformBoard(board, op.ret.transform) = op.ret.board

\* C4: getBestMove returns the empty string exactly when the current board
\* has no winning continuation; otherwise it names a move isValidMove
\* accepts on the current board after which the board is won or can still
\* be won, boards one move from a win included.
C4_BestMoveIsWinningMove ==
  BestMoveDone =>
    /\ out = NoText <=> ~Winnable(board)
    /\ out # NoText =>
         /\ out.text = "" /\ Len(out.lines) = 1
         /\ WellFormedLine(out.lines[1])
         /\ LET l == out.lines[1]
                r == gameMakeMove(board, moveHistory, l[1], l[2],
                                  DirNamed(l[3]), FALSE)
            IN  r.ret /\ (Cardinality(r.board) = 1 \/ Winnable(r.board))

\* C5: getSolution returns "No solution exists." exactly when the current
\* board cannot be won; otherwise replaying its lines in order with makeMove
\* from the current board succeeds at every step and ends with hasWon true,
\* so the final winning move is among the lines.
C5_SolutionReplaysToWin ==
  SolutionDone =>
    /\ out.text = "No solution exists." <=> ~Winnable(board)
    /\ out.text # "No solution exists." =>
         /\ out.lines # << >>
         /\ ReplayLines(board, moveHistory, out.lines)

\* C6: makeMove(r, c, dir) on a valid move applies it, appends it to the
\* history and returns true; on every other input it returns false, leaves
\* board and history as they were, and the call always comes back (no
\* exception, no abort).
C6_MakeMoveTotal ==
  [][ op'.name = "makeMove" =>
        LET row == op'.args[1]
            col == op'.args[2]
            toRow == destRowOf(row, op'.args[3])
            toCol == destColOf(col, op'.args[3])
        IN  /\ status' = "running"
            /\ IF JumpAllowed(board, row, col, toRow, toCol)
               THEN /\ op'.ret = TRUE
                    /\ board' = Jump(board,
                                     Move({ bitIndex(toRow, toCol) },
                                          { bitIndex(row, col),
                                            bitIndex((row + toRow) \div 2,
                                                     (col + toCol) \div 2) }))
                    /\ Len(moveHistory') = Len(moveHistory) + 1
                    /\ SubSeq(moveHistory', 1, Len(moveHistory)) = moveHistory
               ELSE /\ op'.ret = FALSE
                    /\ board' = board
                    /\ moveHistory' = moveHistory ]_vars

\* C7: for every source (row, col) outside the 7x7 grid, negative values
\* included, and every direction, isValidMove returns false without reading
\* PLAYABLE or the board outside their bounds and without failing an
\* assertion, and leaves the game state unchanged.
C7_OutOfRangeSourceRejected ==
  [][ (op'.name = "isValidMove" /\ ~InBoard(op'.args[1], op'.args[2])) =>
        /\ op'.ret = FALSE
        /\ op'.fault = "none"
        /\ status' = "running"
        /\ board' = board
        /\ moveHistory' = moveHistory ]_vars

\* C8: a successful undoMove gives back, bit for bit, the board and the
\* history that held just before the makeMove it undoes (the empty history
\* when that move was the first one); the record of those earlier states is
\* as long as the history, so k moves followed by k undos end on the board
\* the k moves started from.
C8_UndoRestoresPreMoveState ==
  [][ /\ Len(trail') = Len(moveHistory')
      /\ (op'.name = "undoMove" /\ op'.ret = TRUE) =>
           /\ trail # << >>
           /\ board' = trail[Len(trail)].board
           /\ moveHistory' = trail[Len(trail)].moveHistory ]_vars

\* C8 witness: moves were made and undone again, and the last undo has just
\* returned true on the starting board with an empty history.
C8_UndoneToStart ==
  /\ op.name = "undoMove"
  /\ op.ret = TRUE
  /\ moveHistory = << >>
  /\ board = DEFAULT_BOARD

\* C9: undoMove returns true if and only if the history is non-empty; then
\* it pops the last move and inverts it on the board; on an empty history it
\* returns false and leaves the board unchanged.
C9_UndoIffHistory ==
  [][ op'.name = "undoMove" =>
        /\ op'.ret = (moveHistory # << >>)
        /\ IF moveHistory = << >>
           THEN board' = board /\ moveHistory' = << >>
           ELSE LET last == moveHistory[Len(moveHistory)]
                IN  /\ moveHistory' = SubSeq(moveHistory, 1, Len(moveHistory) - 1)
                    /\ board' = (board \ last.setBit) \cup last.clearBits ]_vars

\* C9 witness: undoMove was called on an empty history after the board had
\* been replaced, and returned false.
C9_UndoRefused ==
  /\ op.name = "undoMove"
  /\ op.ret = FALSE
  /\ moveHistory = << >>
  /\ board # DEFAULT_BOARD

\* C10: msBoard::isValidMove(r, c, r2, c2) is true if and only if source and
\* destination are playable cells two apart on one axis, the source holds a
\* marble, the destination is empty and the midpoint holds a marble; and
\* that is so if and only if the move (setBit = destination, clearBits =
\* source | midpoint) is a move-table entry passing the bitmask test.
C10_ValidIffJumpAllowed ==
  op.name = "board.isValidMove" =>
    /\ op.ret = JumpAllowed(board, op.args[1], op.args[2], op.args[3], op.args[4])
    /\ JumpAllowed(board, op.args[1], op.args[2], op.args[3], op.args[4])
         = JumpInTable(board, op.args[1], op.args[2], op.args[3], op.args[4])

\* C10 witness: a jump was accepted on a board on which moves were played.
C10_JumpAccepted ==
  /\ op.name = "board.isValidMove"
  /\ op.ret = TRUE
  /\ board # DEFAULT_BOARD

\* C11: for every board B and every move M legal on B, undoMove of M on
\* applyMove(B, M) gives B again.
C11_UndoOfApplyIsIdentity ==
  op.name = "undoApplied" => op.ret = board

\* C11 witness: a legal jump was applied to a board and undone on the
\* result, which differs from the board in the three cells of the jump.
C11_AppliedAndUndone ==
  /\ op.name = "undoApplied"
  /\ Legal(board, op.args[1])
  /\ Cardinality(Jump(board, op.args[1]) \ board) = 1
  /\ Cardinality(board \ Jump(board, op.args[1])) = 2

\* the bits of the word that are no playable cell: the corner cells of the
\* grid and the bits below the grid
CornerBits ==
  { bitIndex(x[1], x[2]) :
      x \in { y \in (0 .. MAX_ROW) \X (0 .. MAX_COL) : ~PLAYABLE[y[1] + 1][y[2] + 1] } }

LowBits == { i \in WordBits : i < bitIndex(MAX_ROW, MAX_COL) }

\* C12: every board reached from a constructor by legal applyMove, undoMove
\* of the last applied move, transformBoard and getCanonicalBits has all
\* non-playable bits 0: the 12 corner cells of the grid and the 15 low bits
\* of the word.
C12_NonPlayableBitsZero ==
  /\ Cardinality(CornerBits) = 12
  /\ Cardinality(LowBits) = 15
  /\ board \cap (CornerBits \cup LowBits) = {}

\* C12 witness: a board two moves into a game has just been replaced by its
\* canonical form, which is another board.
C12_CanonicalOfPlayedBoard ==
  /\ op.name = "getCanonicalBits"
  /\ Cardinality(board) = 34
  /\ op.ret.transform # DEGREE_0

\* C13: applying a legal move lowers popcount(board) by exactly 1, at every
\* move of a sequence of applied moves.
C13_MoveTakesOneMarble ==
  [][ op'.name = "applyMove" =>
        Cardinality(board') = Cardinality(board) - 1 ]_vars

\* C13 witness: a second move in a row has just been applied.
C13_SecondMoveApplied ==
  /\ op.name = "applyMove"
  /\ Len(moveHistory) = 2
  /\ Cardinality(board) = 34

\* C14: for every board B and each of the eight transforms T, the canonical
\* board of T(B) is the canonical board of B.
C14_CanonicalOfImageIsCanonical ==
  op.name = "canonicalizeImage" =>
    op.ret.board = getCanonicalBits(board).board

\* C14 witness: the canonical form of a quarter turn of B was computed, the
\* quarter turn is another board than B and its canonical form is reported
\* under another transform than B's.
C14_ImageCanonicalized ==
  /\ op.name = "canonicalizeImage"
  /\ op.args[1] = DEGREE_90
  /\ transformBoard(board, DEGREE_90) # board
  /\ op.ret.transform # getCanonicalBits(board).transform

\* C15 (as stated): getCanonicalBits of the canonical board of B returns
\* what getCanonicalBits of B returned, board and transform.
C15_RecanonicalizeSamePair ==
  op.name = "recanonicalize" => op.ret = op.args[1]

\* C15 (amended): getCanonicalBits of the canonical board of B returns that
\* same board, with the identity as its transform: the canonical board is a
\* fixed point of canonicalisation.
C15_CanonicalIsFixedPoint ==
  op.name = "recanonicalize" =>
    /\ op.ret.board = op.args[1].board
    /\ op.ret.transform = DEGREE_0

\* C15 witness: the canonical board of a board that is not canonical itself
\* was canonicalised again.
C15_Recanonicalized ==
  /\ op.name = "recanonicalize"
  /\ op.args[1].transform # DEGREE_0
  /\ op.args[1].board # board

\* a < b as 64-bit numbers: the highest bit in which they differ is b's
NumLess(a, b) == \E i \in b \ a : \A j \in a \ b : j < i

\* C16: getCanonicalBits on B returns the numerically smallest word among
\* the eight images transformBoard gives for B, and the lowest transform
\* index among those that give that word (the identity whenever B is
\* already the smallest).
C16_SmallestImageLowestIndex ==
  op.name = "getCanonicalBits" =>
    LET giving == { t \in Transforms : transformBoard(board, t) = op.ret.board }
    IN  /\ \A t \in Transforms : ~NumLess(transformBoard(board, t), op.ret.board)
        /\ op.ret.transform \in giving
        /\ \A t \in giving : op.ret.transform <= t

\* C17: for every board B, every move M legal on B and every transform T,
\* T(applyMove(B, M)) = applyMove(T(B), T(M)), where T(M) has the set bit
\* and the clear bits of M transformed, and T(M) is legal on T(B).
C17_TransformCommutesWithMove ==
  op.name = "applyTransformed" =>
    /\ op.ret.moved = op.ret.imageMoved
    /\ Legal(op.ret.image, op.ret.move)

\* C17 witness: a move was applied before and after a 270 degree turn, and
\* the turned move is another move than the move itself.
C17_MoveTurned ==
  /\ op.name = "applyTransformed"
  /\ op.args[2] = DEGREE_270
  /\ op.ret.move # op.args[1]
  /\ op.ret.image # board

\* C18: every transform maps playable cells to playable cells, and
\* transformBoard(transformBoard(B, T), inverseTransform(T)) = B for every
\* board B and transform T, where 90 and 270 degrees are inverse to each
\* other and each of the other six is its own inverse.
C18_TransformHasInverse ==
  /\ op.name = "transformBoard" =>
       /\ op.ret \subseteq PlayableMask
       /\ Cardinality(op.ret) = Cardinality(board)
  /\ op.name = "transformBack" =>
       /\ op.ret = board
       /\ op.args[2] = IF op.args[1] = DEGREE_90 THEN DEGREE_270
                       ELSE IF op.args[1] = DEGREE_270 THEN DEGREE_90
                       ELSE op.args[1]

\* C18 witness: a quarter turn of a board that no half turn maps to itself
\* was turned back with the inverse of the quarter turn.
C18_QuarterTurnTakenBack ==
  /\ op.name = "transformBack"
  /\ op.args[1] = DEGREE_90
  /\ transformBoard(board, DEGREE_180) # board
  /\ op.ret = board

\* the number of playable bits below bit i
PlayableRank(i) == Cardinality({ j \in PlayableMask : j < i })

\* the board whose playable bits, counted from the lowest, are the bits of key
Unpacked(key) == { i \in PlayableMask : PlayableRank(i) \in key }

\* C19: boardToBits is injective on boards whose non-playable bits are 0 and
\* its result is below 2^37.  It is injective because the board can be read
\* back from the key: bit k of the key is the k-th playable bit of the board,
\* so two boards with equal keys are equal.
C19_KeyDeterminesBoard ==
  op.name = "boardToBits" =>
    /\ op.ret \subseteq 0 .. 36
    /\ Cardinality(op.ret) = Cardinality(board)
    /\ Unpacked(op.ret) = board

\* C19 witness: the key of a board with a marble in the top row and one in
\* the bottom row was computed.
C19_TopAndBottomPacked ==
  /\ op.name = "boardToBits"
  /\ board \cap { bitIndex(0, 2), bitIndex(0, 3), bitIndex(0, 4) } # {}
  /\ board \cap { bitIndex(6, 2), bitIndex(6, 3), bitIndex(6, 4) } # {}

\* C20 (as stated): the playable mask has exactly 33 one-bits, a full board
\* has popcount 33 and every start board, from msBoard() or from
\* msBoard(row, col), has popcount 32.
C20_ThirtyThreeCells ==
  /\ Cardinality(PlayableMask) = 33
  /\ Cardinality(FULL_BOARD) = 33
  /\ moveHistory = << >> => Cardinality(board) = 32

\* C20 (amended): the playable mask has exactly 37 one-bits (the French
\* board), a full board has popcount 37 and every start board, from
\* msBoard() or from msBoard(row, col), has popcount 36, the count the game
\* loop starts from.
C20_ThirtySevenCells ==
  /\ Cardinality(PlayableMask) = 37
  /\ Cardinality(FULL_BOARD) = 37
  /\ FULL_BOARD = PlayableMask
  /\ INIT_MARBLE_CT = 36
  /\ moveHistory = << >> => Cardinality(board) = 36

\* C20 witness: the board has just been built by msBoard(row, col) with
\* another cell empty than the default board's.
C20_CustomStartBoard ==
  /\ op.name = "useCustomBoard"
  /\ board # DEFAULT_BOARD
  /\ moveHistory = << >>

\* m jumps from a playable cell over a playable neighbour to the playable
\* cell behind it: setBit is the landing cell, clearBits are the origin and
\* the cell between
IsJump(m) ==
  \E r \in 0 .. MAX_ROW, c \in 0 .. MAX_COL :
    \E d \in { <<0 - 1, 0>>, <<1, 0>>, <<0, 0 - 1>>, <<0, 1>> } :
      /\ InBoard(r + 2 * d[1], c + 2 * d[2])
      /\ Playable(r, c)
      /\ Playable(r + d[1], c + d[2])
      /\ Playable(r + 2 * d[1], c + 2 * d[2])
      /\ m.setBit = { bitIndex(r + 2 * d[1], c + 2 * d[2]) }
      /\ m.clearBits = { bitIndex(r, c), bitIndex(r + d[1], c + d[2]) }

\* every entry of the table is a jump
TableIsJumps ==
  \A m \in TableMoves :
    /\ Cardinality(m.setBit) = 1
    /\ Cardinality(m.clearBits) = 2
    /\ m.setBit \cup m.clearBits \subseteq PlayableMask
    /\ IsJump(m)

\* the table has n entries, no two equal, each a jump
TableOfJumps(n) ==
  /\ Len(ALL_MOVES) = n
  /\ Cardinality(TableMoves) = n
  /\ TableIsJumps

\* C21 (as stated): the move table holds exactly 76 distinct moves, each
\* with one set bit (the destination) and two clear bits (the origin and the
\* cell between), all three on playable cells; a move applied to a board is
\* one of them.
C21_SeventySixMoves ==
  /\ TableOfJumps(76)
  /\ op.name = "applyMove" => op.args[1] \in TableMoves

\* C21 (amended): the move table holds exactly 92 distinct moves (the jumps
\* of the French board), each with one set bit (the destination) and two
\* clear bits (the origin and the cell between), all three on playable
\* cells; a move applied to a board is one of them.
C21_NinetyTwoMoves ==
  /\ TableOfJumps(92)
  /\ op.name = "applyMove" => op.args[1] \in TableMoves

\* C21 witness: the last entry of the table, the jump to the left along the
\* bottom row, was applied to a board.
C21_LastTableMoveApplied ==
  /\ op.name = "applyMove"
  /\ op.args[1] = ALL_MOVES[Len(ALL_MOVES)]
  /\ op.args[1].setBit = { bitIndex(MAX_ROW, 2) }

\* C22: useCustomBoard(r, c), that is msBoard(r, c), always comes back: for
\* a playable cell (r, c) the board is the full board less exactly that
\* cell, and for every other (r, c), off the grid and negative included, it
\* is the default board; the history is empty either way.
C22_CustomBoardTotal ==
  op.name = "useCustomBoard" =>
    /\ status = "running"
    /\ op.fault = "none"
    /\ moveHistory = << >>
    /\ IF InBoard(op.args[1], op.args[2]) /\ PLAYABLE[op.args[1] + 1][op.args[2] + 1]
       THEN /\ board = FULL_BOARD \ { bitIndex(op.args[1], op.args[2]) }
            /\ Cardinality(FULL_BOARD \ board) = 1
       ELSE board = DEFAULT_BOARD

\* C22 witness: useCustomBoard was called with a column past the grid on a
\* row of the grid, and the board is the default board.
C22_OffGridFallsBack ==
  /\ op.name = "useCustomBoard"
  /\ op.args[1] \in 0 .. MAX_ROW
  /\ op.args[2] > MAX_COL
  /\ board = DEFAULT_BOARD

\* the moves on the stack and the moves it still takes to come down to one
\* marble from the board on top of the stack
MovesOnStack == Len(dfs) - 1

MovesToGo == Cardinality(Top.board) - WINNING_MARBLE_COUNT

\* solve returns when the board on top holds one marble; it returns one
\* move per frame above the root: the root has no incoming move, every
\* other frame has one
OneMovePerFrame ==
  \A i \in 1 .. Len(dfs) : (dfs[i].incomingMove = NoMove) = (i = 1)

SearchingFrom(b) == board = b /\ api = "solve" /\ pc = "dfs" /\ dfs # << >>

JumpFrom(r, c, dr, dc) ==
  Move({ bitIndex(r + 2 * dr, c + 2 * dc) },
       { bitIndex(r, c), bitIndex(r + dr, c + dc) })

ThreeInRow == { bitIndex(3, 0), bitIndex(3, 1), bitIndex(3, 2) }

\* C24 (as stated): on the board whose only marbles are at (3,0), (3,1) and
\* (3,2), solve returns the single move "3 0 right" and the board after it
\* has one marble, at (3,2).
C24_ThreeInRowSolvedByOneJump ==
  (SolveDone /\ board = ThreeInRow) =>
    /\ result = << JumpFrom(3, 0, 0, 1) >>
    /\ toString(result[1]) = << 3, 0, "right" >>
    /\ applyMove(board, result[1]) = { bitIndex(3, 2) }

\* C24 (amended): on the board whose only marbles are at (3,0), (3,1) and
\* (3,2), solve returns the empty sequence: "3 0 right" would land on the
\* marble at (3,2), the only legal jump is "3 1 right", and the two marbles
\* it leaves, at (3,0) and (3,3), allow no jump.
C24_ThreeInRowUnsolvable ==
  (SolveDone /\ board = ThreeInRow) =>
    /\ result = << >>
    /\ ~Legal(board, JumpFrom(3, 0, 0, 1))
    /\ { m \in TableMoves : Legal(board, m) } = { JumpFrom(3, 1, 0, 1) }
    /\ Jump(board, JumpFrom(3, 1, 0, 1)) = { bitIndex(3, 0), bitIndex(3, 3) }
    /\ { m \in TableMoves : Legal(Jump(board, JumpFrom(3, 1, 0, 1)), m) } = {}

\* C24 witness: solve has returned on that board after it tried the one
\* legal jump.
C24_ThreeInRowSearched ==
  /\ SolveDone
  /\ board = ThreeInRow
  /\ Cardinality(seen) = 1

TwoApart == { bitIndex(3, 3), bitIndex(3, 5) }

\* C25 (as stated): on the board whose only marbles are at (3,3) and (3,5),
\* solve returns a solving sequence of length 1.
C25_TwoApartSolvedByOneJump ==
  (SolveDone /\ board = TwoApart) =>
    /\ Len(result) = 1
    /\ ReplayWins(board, result)

\* C25 (amended): on the board whose only marbles are at (3,3) and (3,5),
\* solve returns the empty sequence: the cell between the marbles, (3,4),
\* is empty, so no jump is legal.
C25_TwoApartUnsolvable ==
  (SolveDone /\ board = TwoApart) =>
    /\ result = << >>
    /\ bitIndex(3, 4) \notin board
    /\ { m \in TableMoves : Legal(board, m) } = {}

\* C25 witness: solve has returned on that board; its root frame had no
\* move to try.
C25_TwoApartSearched ==
  /\ SolveDone
  /\ board = TwoApart
  /\ moves = << >>
  /\ seen = {}

\* the eight images of b are eight different boards, so that one transform
\* only gives the smallest
HasUniqueMinimum(b) ==
  Cardinality({ transformBoard(b, t) : t \in Transforms }) = NUM_ROTATIONS

\* C26: for every board B whose eight images have a unique minimum and
\* every transform T, solve(T(B)) is as long as solve(B) and its i-th move
\* is the i-th move of solve(B) with set bit and clear bits transformed by
\* T.
C26_SolveOfImageIsImageOfSolve ==
  (op.name = "solveImage" /\ HasUniqueMinimum(op.args[2])) =>
    /\ Len(op.ret) = Len(op.args[3])
    /\ \A i \in 1 .. Len(op.ret) :
         op.ret[i] = transformMove(op.args[3][i], op.args[1])

\* C27: solve(B) returns the same move sequence whatever calls of solve
\* were made before it in the process, on solvable boards or not: every
\* call returns what solve returns when it is the first call of a process,
\* on an empty visited set, and leaves the visited set that call leaves.
C27_SolveIgnoresEarlierCalls ==
  op.name \in { "solve", "solveNext" } =>
    /\ op.ret = solve({}, board).result
    /\ result = op.ret
    /\ seen = solve({}, board).seen

\* C27 witness: a call found a solution on a board with two marbles after
\* an earlier call had found one and had left keys in the visited set.
C27_SolvedAfterSolved ==
  /\ op.name = "solveNext"
  /\ op.args = << TRUE, TRUE >>
  /\ Cardinality(board) = 2
  /\ result # << >>

\* C28: in any sequence of testAndSet and clear on the visited set,
\* testAndSet(board) returns true if and only if the packed key of the board
\* was inserted by an earlier testAndSet since the set was constructed or
\* last cleared; it leaves the key in the set, with the keys inserted
\* before; clear leaves the set empty; and the bit array gives the answers
\* of the hash set, without failing its assertion.
C28_HitIffInsertedSinceClear ==
  [][ /\ op'.name = "testAndSet" =>
           LET key == boardToBits(op'.args[1])
           IN  /\ op'.ret.sparse = (\E v \in inserted : boardToBits(v) = key)
               /\ op'.ret.dense = op'.ret.sparse
               /\ op'.fault = "none"
               /\ key \in seen'
               /\ testAndSetDense(bitmap', op'.args[1]).hit
               /\ \A v \in inserted :
                    /\ boardToBits(v) \in seen'
                    /\ testAndSetDense(bitmap', v).hit
      /\ op'.name = "clear" =>
           /\ seen' = {}
           /\ \A v \in SetValues : ~testAndSetDense(bitmap', v).hit ]_vars

\* C28 witness: testAndSet returned true on both builds while the set held
\* more than one key and not the key of every value.
C28_HitAfterInsert ==
  /\ op.name = "testAndSet"
  /\ op.ret = Answers(TRUE, TRUE)
  /\ Cardinality(seen) \in 2 .. (Cardinality(SetValues) - 1)

\* the name of a direction of msGame
NameOfDir(dir) ==
  IF dir = UP THEN "up" ELSE IF dir = DOWN THEN "down"
  ELSE IF dir = LEFT THEN "left" ELSE "right"

\* the text of m is "r c dir"
PrintsAs(m, r, c, dir) == toString(m) = << r, c, NameOfDir(dir) >>

\* every move the table holds for an origin cell prints that cell and the
\* direction of its landing cell
TablePrintsOrigins ==
  \A x \in ScanCells :
    \A i \in 1 .. Len(MovesAt(x[1], x[2])) :
      \E dir \in Directions :
        /\ PrintsAs(MovesAt(x[1], x[2])[i], x[1], x[2], dir)
        /\ MovesAt(x[1], x[2])[i].setBit =
             Bit(bitIndex(destRowOf(x[1], dir), destColOf(x[2], dir)))

\* C29: for every board and every (r, c, dir) that isValidMove accepts, the
\* move getAMove builds prints as "r c dir" with dir one of up, down, left,
\* right (never "unknown", never -1 coordinates); the move makeMove put on
\* the history prints the same way, and every move of the move table prints
\* its origin and its direction.
C29_MovePrintsOriginAndDirection ==
  /\ TablePrintsOrigins
  /\ (op.name = "isValidMove" /\ op.ret) =>
       LET toRow == destRowOf(op.args[1], op.args[3])
           toCol == destColOf(op.args[2], op.args[3])
           got == getAMove(board, op.args[1], op.args[2], toRow, toCol, FALSE)
       IN  /\ ~got.threw
           /\ PrintsAs(got.move, op.args[1], op.args[2], op.args[3])
           /\ toString(got.move)[3] \in DirNames
  /\ (op.name = "makeMove" /\ op.ret) =>
       PrintsAs(moveHistory[Len(moveHistory)],
                op.args[1], op.args[2], op.args[3])

\* C29 witness: isValidMove accepted a downward jump on a board that earlier
\* moves have changed.
C29_DownwardJumpAccepted ==
  /\ op.name = "isValidMove"
  /\ op.ret
  /\ op.args[3] = DOWN
  /\ moveHistory # << >>

\* the step changes the game state: the board or the move history
GameStateChanged == board' # board \/ moveHistory' # moveHistory

\* the step is a whole call of one of the named member functions
StepOf(names) == pc = "idle" /\ pc' = "idle" /\ op'.name \in names

\* C30 (as stated): the game state (board and move history) is mutated only
\* by makeMove and undoMove; isValidMove, hasMoves, hasWon, getBestMove and
\* getSolution leave both unchanged, at every step of the solver.
C30_OnlyMakeAndUndoMutate ==
  [][GameStateChanged => StepOf({"makeMove", "undoMove"})]_vars

\* C30 (amended): the game state is mutated only by makeMove, undoMove and
\* useCustomBoard; isValidMove, hasMoves, hasWon, getBestMove and getSolution
\* leave the board and the history unchanged, at every step of the solver.
C30_OnlyMovesAndCustomBoardMutate ==
  [][GameStateChanged =>
       StepOf({"makeMove", "undoMove", "useCustomBoard"})]_vars

\* C30 witness: getSolution has come to its end with a solution, after a
\* search that visited more positions than the solution has, late in a game
\* played from the default board (every move on the history took a marble)
\* on a board that is not its own canonical form.
C30_SolvedAfterMoves ==
  /\ pc = "done"
  /\ api = "getSolution"
  /\ result # << >>
  /\ Cardinality(seen) > Len(result) + 1
  /\ Len(moveHistory) + Cardinality(board) = INIT_MARBLE_CT
  /\ board # getCanonicalBits(board).board

\* C31: useCustomBoard(r, c) replaces the board by msBoard(r, c) and empties
\* the history, so that an undoMove called on what it left returns false and
\* restores nothing; undoMove returns false, and changes neither board nor
\* history, exactly when the history is empty.
C31_UndoAfterResetRefused ==
  /\ [](op.name = "useCustomBoard" =>
          /\ board = msBoardAt(op.args[1], op.args[2])
          /\ moveHistory = << >>
          /\ gameUndoMove(board, moveHistory) =
               [ret |-> FALSE, board |-> board, moveHistory |-> << >>])
  /\ [][op'.name = "undoMove" =>
          /\ op'.ret = (moveHistory # << >>)
          /\ moveHistory = << >> =>
               board' = board /\ moveHistory' = moveHistory]_vars

\* C31 witness: undoMove returned false on a custom start board; the game
\* had been played for more than thirty moves before the board was replaced,
\* and none was made since.
C31_UndoRefusedOnCustomBoard ==
  /\ op.name = "undoMove"
  /\ ~op.ret
  /\ board # DEFAULT_BOARD
  /\ Cardinality(board) = INIT_MARBLE_CT
  /\ moveHistory = << >>

\* C32: when the search pops a frame whose moves are used up, the move
\* buffer is cut back to that frame's movesStart: at every point of the
\* search the buffer is as long as moveEnd of the top frame says, and holds
\* the moves of the frames on the stack and no others.
C32_BufferEndsAtTopFrame ==
  (pc = "dfs" /\ dfs # << >>) =>
    /\ Len(moves) = Top.moveEnd
    /\ \A i \in 1 .. Len(moves) :
         \E k \in 1 .. Len(dfs) :
           dfs[k].movesStart < i /\ i <= dfs[k].moveEnd

\* b is the least of its eight images, the board getCanonicalBits returns
IsCanonical(b) == \A t \in Transforms : ~WordLt(transformBoard(b, t), b)

\* x and y are the same position up to a rotation or reflection
SamePosition(x, y) == \E t \in Transforms : transformBoard(x, t) = y

\* C33: during one solve call every position is explored at most once under
\* any of its eight images: every board stored in a frame is its own
\* canonical form, no two frames of the stack hold the same canonical
\* board, a frame is pushed only for a position whose key the visited set did not
\* hold, the key is in the set from then on, and the set loses no key while
\* the call runs.
C33_EachPositionExploredOnce ==
  /\ [](pc = "dfs" =>
          /\ \A k \in 1 .. Len(dfs) : IsCanonical(dfs[k].board)
          /\ \A j, k \in 1 .. Len(dfs) :
               dfs[j].board = dfs[k].board => j = k
          /\ \A k \in 2 .. Len(dfs) : boardToBits(dfs[k].board) \in seen)
  /\ [][pc = "dfs" =>
          /\ seen \subseteq seen'
          /\ Len(dfs') > Len(dfs) =>
               /\ boardToBits(dfs'[Len(dfs')].board) \notin seen
               /\ boardToBits(dfs'[Len(dfs')].board) \in seen']_vars

\* C33 witness: two of the moves tried on the top frame led to the same
\* position under different images; the search went on from the first and
\* the stack holds no frame for the second.
C33_PositionMetTwice ==
  /\ pc = "dfs"
  /\ dfs # << >>
  /\ \E i, j \in (Top.movesStart + 1) .. Top.moveIndex :
       /\ i < j
       /\ applyMove(Top.board, moves[i]) # applyMove(Top.board, moves[j])
       /\ SamePosition(applyMove(Top.board, moves[i]),
                       applyMove(Top.board, moves[j]))

\* the call has returned, or the search has gone as far as it is followed
ReturnedOrCut == pc = "done" \/ (pc = "dfs" /\ ~Searching)

\* while solve runs the stack holds at most n frames, and never more than
\* the start board has marbles
StackWithin(n) ==
  pc = "dfs" => Len(dfs) <= n /\ Len(dfs) <= Cardinality(board)

\* a call that has returned gave the empty sequence exactly if its stack
\* had run empty
EmptyIffExhausted == pc = "done" => ((result = << >>) = (dfs = << >>))

\* C34 (as stated): every solve call terminates, returning a solution or,
\* the search exhausted, the empty sequence, and while it runs the stack
\* never holds more than 31 frames.
C34_TerminatesWithin31Frames ==
  /\ [](StackWithin(31))
  /\ []EmptyIffExhausted
  /\ (pc = "dfs") ~> ReturnedOrCut

\* C34 (amended): every solve call terminates, returning a solution or, the
\* search exhausted, the empty sequence, and while it runs the stack never
\* holds more than 36 frames (one for each marble of the start board).
C34_TerminatesWithin36Frames ==
  /\ [](StackWithin(INIT_MARBLE_CT))
  /\ []EmptyIffExhausted
  /\ (pc = "dfs") ~> ReturnedOrCut

\* C34 witness: a search of a three-marble board came back with the empty
\* sequence after it had pushed frames and popped them all.
C34_SearchExhausted ==
  /\ pc = "done"
  /\ result = << >>
  /\ Cardinality(board) = 3
  /\ Cardinality(seen) >= 2

(***************************************************************************)
(* C35: validMoves appends to the list it is given, without clearing it,   *)
(* exactly the jumps the board allows, ordered row-major by source cell    *)
(* and, for one cell, up, down, left, right.  The jumps are listed here    *)
(* from the rule of the game on cells; a jump has the key                  *)
(* 4 * (7 * row + col) + rank of its direction.                            *)
(***************************************************************************)
JumpKeys == 0 .. (4 * NUM_ROWS * NUM_COLS - 1)

KeyRow(k) == (k \div 4) \div NUM_COLS

KeyCol(k) == (k \div 4) % NUM_COLS

\* the landing cell: up is towards row 0, left is towards column 0
KeyRow2(k) ==
  IF k % 4 = 0 THEN KeyRow(k) - 2 ELSE IF k % 4 = 1 THEN KeyRow(k) + 2
  ELSE KeyRow(k)

KeyCol2(k) ==
  IF k % 4 = 2 THEN KeyCol(k) - 2 ELSE IF k % 4 = 3 THEN KeyCol(k) + 2
  ELSE KeyCol(k)

KeyMove(k) ==
  Move(CellBit(KeyRow2(k), KeyCol2(k)),
       CellBit(KeyRow(k), KeyCol(k))
         \cup CellBit((KeyRow(k) + KeyRow2(k)) \div 2,
                      (KeyCol(k) + KeyCol2(k)) \div 2))

\* the jumps b allows, by rising key
JumpsInOrder(b) ==
  CHOOSE s \in { [i \in 1 .. Cardinality(keys) |->
                   KeyMove(CHOOSE k \in keys :
                             Cardinality({ j \in keys : j < k }) = i - 1)] :
                 keys \in { { k \in JumpKeys :
                               /\ Playable(KeyRow(k), KeyCol(k))
                               /\ JumpAllowed(b, KeyRow(k), KeyCol(k),
                                              KeyRow2(k), KeyCol2(k)) } } } :
    TRUE

\* C35: whenever solve or runDFS calls validMoves (the root frame, every
\* pushed frame), the buffer afterwards is the buffer before followed by the
\* jumps legal on the new frame's board in table order
C35_ValidMovesAppendsLegalInOrder ==
  [][Len(dfs') > Len(dfs) =>
       moves' = moves \o JumpsInOrder(dfs'[Len(dfs')].board)]_vars

\* C35: a frame was pushed whose board has several legal moves, appended
\* behind the moves of the frames below it
C35_AppendedBehindOlderMoves ==
  /\ pc = "dfs" /\ Len(dfs) >= 2
  /\ Top.movesStart > 0
  /\ Top.moveEnd = Len(moves)
  /\ Top.moveEnd - Top.movesStart >= 2

(***************************************************************************)
(* C38: every hash set a solving call of the facade allocates is deleted   *)
(* before the call returns, with a solution or with the empty result: no   *)
(* set of a call is left allocated when solvable has returned.             *)
(***************************************************************************)
\* C38: when solvable has returned, no hash set allocated for a call is live
C38_NoSetLeftAllocated ==
  (pc = "done" /\ api \in {"getBestMove", "getSolution"}) => liveSets = 0

(***************************************************************************)
(* C39: solve on a board that is already won pushes the root frame only,   *)
(* finds no move and returns the empty vector, as it does for a board      *)
(* without solution; the root is not tested with hasWon and its key is     *)
(* never put into the visited set.                                         *)
(***************************************************************************)
\* C39: during and after a solve the key of the start position is not in the
\* visited set; on a start board with one marble nothing is ever inserted or
\* pushed beyond the root frame, which has no move; and the call returns the
\* empty vector exactly for the boards no sequence of jumps wins, the won
\* start board among them
C39_WonRootReturnsEmpty ==
  (api = "solve" /\ pc \in {"dfs", "done"}) =>
    /\ boardToBits(getCanonicalBits(board).board) \notin seen
    /\ hasWon(board) =>
         /\ seen = {} /\ moves = << >>
         /\ Len(dfs) <= 1
         /\ \A k \in 1 .. Len(dfs) :
              /\ dfs[k].board = getCanonicalBits(board).board
              /\ dfs[k].moveEnd = START_MOVE_IDX
              /\ dfs[k].incomingMove = NoMove
    /\ pc = "done" => ((result = << >>) <=> ~Winnable(board))

\* C39: a solve of a start board with one marble has returned, empty
C39_WonRootSolved ==
  /\ api = "solve" /\ pc = "done"
  /\ hasWon(board)
  /\ result = << >> /\ dfs = << >>

(***************************************************************************)
(* C40: the ranges the frames hold into the shared move buffer.            *)
(***************************************************************************)
\* the entries start + 1 .. end of the buffer, the half-open range
\* [start, end) of the code's zero-based vector
Slice(buf, start, end) == SubSeq(buf, start + 1, end)

\* C40: at every step of the search every frame on the stack has
\* movesStart <= moveIndex <= moveEnd <= size of the buffer and its range of
\* the buffer is the list of the jumps legal on its board in table order;
\* the entry the next iteration reads for the top frame is inside the buffer
\* and is a move legal on the top frame's board
C40_FrameRangesHoldValidMoves ==
  (pc = "dfs") =>
    /\ \A k \in 1 .. Len(dfs) :
         /\ dfs[k].movesStart <= dfs[k].moveIndex
         /\ dfs[k].moveIndex <= dfs[k].moveEnd
         /\ dfs[k].moveEnd <= Len(moves)
         /\ Slice(moves, dfs[k].movesStart, dfs[k].moveEnd)
              = JumpsInOrder(dfs[k].board)
    /\ (dfs # << >> /\ Top.moveIndex < Top.moveEnd) =>
         /\ Top.moveIndex + 1 \in 1 .. Len(moves)
         /\ Legal(Top.board, moves[Top.moveIndex + 1])

\* C40: the top frame has read some of its moves, has moves left to read,
\* and the buffer holds moves of frames pushed above it and popped since
C40_ReadAfterSiblingsPopped ==
  /\ pc = "dfs" /\ Len(dfs) >= 2
  /\ Top.movesStart < Top.moveIndex
  /\ Top.moveIndex < Top.moveEnd
  /\ Top.moveEnd < Len(moves)

(***************************************************************************)
(* C36: the line "undo" in the game loop.                                  *)
(***************************************************************************)
\* the loop refuses an undo exactly when the marble counter is n: it prints
\* "No moves to undo!" and leaves board, history and counter as they are;
\* otherwise the last move is taken off the history, the board is the one
\* before that move and the counter is one more.  The counter shown is the
\* number of marbles on the board, and an undo is refused exactly when the
\* history is empty.
UndoRefusedAt(n) ==
  op'.name = "undo" =>
    /\ marblesLeft' = Cardinality(board')
    /\ (marblesLeft = n) <=> (moveHistory = << >>)
    /\ IF marblesLeft = n
       THEN /\ shown' = Said("No moves to undo!")
            /\ board' = board
            /\ moveHistory' = moveHistory
            /\ marblesLeft' = marblesLeft
       ELSE /\ shown' # Said("No moves to undo!")
            /\ moveHistory # << >>
            /\ moveHistory' = SubSeq(moveHistory, 1, Len(moveHistory) - 1)
            /\ board' = trail[Len(trail)].board
            /\ marblesLeft' = marblesLeft + 1

C37_MoveNumberCountsMoves ==
  [][moveNum' # moveNum =>
       /\ op'.name = "move" /\ op'.ret
       /\ moveNum' = moveNum + 1
       /\ Len(moveHistory') = Len(moveHistory) + 1]_vars

====
